---------------------------- MODULE Spec2Model ----------------------------
(***************************************************************************)
(* A model of the Skywatcher motor-controller protocol driver              *)
(* (src/drivers/telescope/skywatcherAPI.cpp, skywatcherAPI.h).             *)
(*                                                                         *)
(* Characters are modelled by their ASCII codes and strings by sequences   *)
(* of codes, so that the arithmetic the code does on characters (the HEX   *)
(* macro, the status bit tests, "response[1] - 0x30") is done as written.  *)
(* Slew rates (doubles, radians per second) are modelled as integers in    *)
(* units of one hundredth of the sidereal rate.                            *)
(***************************************************************************)
EXTENDS Integers, Sequences, FiniteSets, TLC

VARIABLES
    AxesStatus,                 \* AXISSTATUS AxesStatus[2]
    CurrentEncoders,            \* long CurrentEncoders[2]
    LastSlewToTarget,           \* long LastSlewToTarget[2]
    SlewingSpeed,               \* double SlewingSpeed[2]
    MCVersion,                  \* unsigned long MCVersion
    SupportAdvancedCommandSet,  \* bool SupportAdvancedCommandSet
    SilentSlewMode,             \* bool SilentSlewMode
    MicrostepsPerRevolution,    \* long MicrostepsPerRevolution[2]
    StepperClockFrequency,      \* long StepperClockFrequency[2]
    HighSpeedRatio,             \* long HighSpeedRatio[2]
    LowSpeedGotoMargin,         \* long LowSpeedGotoMargin[2]
    MountCode,                  \* unsigned long MountCode
    IsDCMotor,                  \* bool IsDCMotor
    PolarisPositionEncoders,    \* long PolarisPositionEncoders[2]
    ZeroPositionEncoders,       \* long ZeroPositionEncoders[2]
    pc,                         \* position of the driver's single thread
    frame,                      \* arguments and locals of the running operation
    sent,                       \* frames written during the running operation
    polled,                     \* what the last successful status poll of the operation saw
    failed,                     \* some exchange of the running operation failed
    ret,                        \* what the operation returned
    xchg,                       \* the last exchange, attempt by attempt
    codec,                      \* the last conversion between a number and its wire form
    flags                       \* the last change of an AXISSTATUS on its own

progVars == <<AxesStatus, CurrentEncoders, LastSlewToTarget, SlewingSpeed>>
calibVars == <<MCVersion, SupportAdvancedCommandSet, MicrostepsPerRevolution,
               StepperClockFrequency, HighSpeedRatio, LowSpeedGotoMargin>>
callVars == <<pc, frame, sent, polled, failed, ret>>
mountVars == <<MountCode, IsDCMotor, PolarisPositionEncoders, ZeroPositionEncoders>>
vars == <<AxesStatus, CurrentEncoders, LastSlewToTarget, SlewingSpeed, MCVersion,
          SupportAdvancedCommandSet, SilentSlewMode, MicrostepsPerRevolution,
          StepperClockFrequency, HighSpeedRatio, LowSpeedGotoMargin,
          MountCode, IsDCMotor, PolarisPositionEncoders, ZeroPositionEncoders,
          pc, frame, sent, polled, failed, ret, xchg, codec, flags>>

(***************************************************************************)
(* Axes, characters, small helpers                                         *)
(***************************************************************************)
AXIS1 == 0
AXIS2 == 1
Axes == {AXIS1, AXIS2}

Ord(c) ==
    CASE c = "!" -> 33  [] c = "0" -> 48  [] c = "1" -> 49  [] c = "2" -> 50
      [] c = "3" -> 51  [] c = "9" -> 57  [] c = ":" -> 58  [] c = "=" -> 61
      [] c = "E" -> 69  [] c = "F" -> 70  [] c = "G" -> 71  [] c = "H" -> 72
      [] c = "I" -> 73  [] c = "J" -> 74  [] c = "K" -> 75  [] c = "L" -> 76
      [] c = "M" -> 77  [] c = "X" -> 88  [] c = "f" -> 102 [] c = "j" -> 106
      [] c = "a" -> 97  [] c = "b" -> 98  [] c = "e" -> 101 [] c = "g" -> 103
      [] c = "s" -> 115

CR == 13

Abs(x) == IF x < 0 THEN -x ELSE x
Min(a, b) == IF a < b THEN a ELSE b
Last(s) == s[Len(s)]

\* <<q, r>> with a * b = q * d + r and 0 <= r < d, for a, b >= 0 and d > 0,
\* computed without an intermediate product (the code computes in doubles).
RECURSIVE MulDivMod(_, _, _)
MulDivMod(a, b, d) ==
    IF b = 0 THEN <<0, 0>>
    ELSE LET h   == MulDivMod(a, b \div 2, d)
             add == IF b % 2 = 1 THEN a ELSE 0
             t   == 2 * h[2] + (add % d)
         IN  <<2 * h[1] + (add \div d) + (t \div d), t % d>>

MulDiv(a, b, d) == MulDivMod(a, b, d)[1]

(***************************************************************************)
(* Wire codec                                                              *)
(***************************************************************************)
RECURSIVE BitOr(_, _)
BitOr(a, b) ==
    IF a = 0 THEN b
    ELSE IF b = 0 THEN a
    ELSE 2 * BitOr(a \div 2, b \div 2) + (IF a % 2 = 1 \/ b % 2 = 1 THEN 1 ELSE 0)

\* #define HEX(c) (((c) < 'A') ? ((c) - '0') : ((c) - 'A') + 10)
HEX(c) == IF c < 65 THEN c - 48 ELSE (c - 65) + 10

\* BCDstr2long reading the three pairs of digits in the order they arrive
BCDstr2long_NaturalOrder(String) ==
    IF Len(String) # 6 THEN 0
    ELSE LET v1 == HEX(String[1])
             v2 == BitOr(v1 * 16, HEX(String[2]))
             v3 == BitOr(v2 * 16, HEX(String[3]))
             v4 == BitOr(v3 * 16, HEX(String[4]))
             v5 == BitOr(v4 * 16, HEX(String[5]))
         IN  BitOr(v5 * 16, HEX(String[6]))

BCDstr2long(String) ==
    IF Len(String) # 6 THEN 0
    ELSE LET v1 == HEX(String[5])
             v2 == BitOr(v1 * 16, HEX(String[6]))
             v3 == BitOr(v2 * 16, HEX(String[3]))
             v4 == BitOr(v3 * 16, HEX(String[4]))
             v5 == BitOr(v4 * 16, HEX(String[1]))
         IN  BitOr(v5 * 16, HEX(String[2]))

Highstr2long(String) ==
    IF Len(String) < 2 THEN 0
    ELSE BitOr(HEX(String[1]) * 16, HEX(String[2]))

\* one hexadecimal digit as std::hex << std::uppercase prints it
HexDigitUpper(n) == IF n < 10 THEN 48 + n ELSE 55 + n
\* one hexadecimal digit as std::hex prints it
HexDigitLower(n) == IF n < 10 THEN 48 + n ELSE 87 + n

\* setw(2) << (byte), with setfill('0'), hex, uppercase
HexByte(b) == IF b < 16 THEN <<48, HexDigitUpper(b)>>
                        ELSE <<HexDigitUpper(b \div 16), HexDigitUpper(b % 16)>>

Long2BCDstr(Number) ==
    LET n == Number % 16777216
    IN  HexByte(n % 256) \o HexByte((n \div 256) % 256) \o HexByte(n \div 65536)

\* the hexadecimal digits (as numbers) of a non-negative number
RECURSIVE HexVals(_)
HexVals(n) == IF n < 16 THEN <<n>> ELSE Append(HexVals(n \div 16), n % 16)

\* setfill('0') << setw(w): w is a minimum width, a longer number is printed in full
RECURSIVE ZeroFill(_, _)
ZeroFill(s, w) == IF Len(s) >= w THEN s ELSE ZeroFill(<<0>> \o s, w)

\* std::hex << (a non-negative number) under setfill('0') << setw(w)
HexField(n, w) == LET v == ZeroFill(HexVals(n), w) IN [i \in DOMAIN v |-> HexDigitLower(v[i])]

\* std::hex << (long long)v * 1024 under setw(16): 64-bit two's complement.
\* |v| * 1024 + low is split in a high and a low part so that no product
\* leaves the range of the model's integers.
Hex64Times1024(v) ==
    LET w    == IF v >= 0 THEN v ELSE (-v) - 1
        low  == IF v >= 0 THEN 0 ELSE 1023
        vals == ZeroFill(HexVals(w \div 64), 12)
                \o ZeroFill(HexVals((w % 64) * 1024 + low), 4)
    IN  [i \in DOMAIN vals |-> HexDigitLower(IF v >= 0 THEN vals[i] ELSE 15 - vals[i])]

(***************************************************************************)
(* Transport session: one exchange, TalkWithAxis                           *)
(***************************************************************************)
SKYWATCHER_MAX_RETRTY == 3
SKYWATCHER_MAX_CMD == 16

\* const std::map<int, std::string> SkywatcherAPI::errorCodes
errorCodes ==
    [code \in 0..5 |->
        CASE code = 0 -> "Unknown command"
          [] code = 1 -> "Command length error"
          [] code = 2 -> "Motor not stopped"
          [] code = 3 -> "Invalid character"
          [] code = 4 -> "Not initialized"
          [] code = 5 -> "Driver sleeping"]

\* What the transport does on one attempt:
\*   "wfail"      tty_write_string returns an error
\*   "rerr_short" tty_read_section returns an error, fewer than 2 bytes read
\*   "rerr"       tty_read_section returns an error, 2 bytes or more read
\*   "short"      tty_read_section returns TTY_OK with fewer than 2 bytes
\*   "ok"         tty_read_section returns TTY_OK with the reply and its CR
Outcomes == {"wfail", "rerr_short", "rerr", "short", "ok"}
Scripts == [1..SKYWATCHER_MAX_RETRTY -> Outcomes]

\* a frame addressed to the first axis whatever the axis
FormatCommand_FirstAxis(Axis, Command, cmdDataStr) ==
    LET full == <<58, Command, 49>> \o cmdDataStr
        kept == SubSeq(full, 1, Min(Len(full), SKYWATCHER_MAX_CMD - 1))
    IN  kept \o <<CR>>

\* snprintf(command, SKYWATCHER_MAX_CMD, ":%c%c%s", ...); command[strlen(command)] = 0xD
FormatCommand(Axis, Command, cmdDataStr) ==
    LET full == <<58, Command, (IF Axis = AXIS1 THEN 49 ELSE 50)>> \o cmdDataStr
        kept == SubSeq(full, 1, Min(Len(full), SKYWATCHER_MAX_CMD - 1))
    IN  kept \o <<CR>>

\* a loop that takes a read of fewer than 2 bytes for a reply
RECURSIVE RetryLoop_AcceptsShort(_, _)
RetryLoop_AcceptsShort(script, retries) ==
    LET last == (retries = SKYWATCHER_MAX_RETRTY - 1)
        o    == script[retries + 1]
    IN  IF o \in {"ok", "short"}
        THEN [exit |-> "break", attempts |-> retries + 1, diag |-> "none"]
        ELSE IF last
        THEN [exit |-> "return false", attempts |-> retries + 1, diag |-> "Communication error"]
        ELSE RetryLoop_AcceptsShort(script, retries + 1)

\* the for loop of TalkWithAxis from attempt number `retries` on (0-based)
RECURSIVE RetryLoop(_, _)
RetryLoop(script, retries) ==
    LET last == (retries = SKYWATCHER_MAX_RETRTY - 1)
        o    == script[retries + 1]
    IN  IF o = "wfail"
        THEN IF last
             THEN [exit |-> "return false", attempts |-> retries + 1,
                   diag |-> "Communication error"]
             ELSE RetryLoop(script, retries + 1)
        ELSE IF o # "ok"
        THEN IF last
             THEN [exit |-> "return false", attempts |-> retries + 1,
                   diag |-> IF o = "rerr" THEN "Communication error" ELSE "none"]
             ELSE RetryLoop(script, retries + 1)
        ELSE [exit |-> "break", attempts |-> retries + 1, diag |-> "none"]

\* the code after the loop: strip CR, skip the first character, map '!'
\* `reply` is the bytes read before the CR (at least one: bytesRead >= 2)
MountErrorCode(reply) == ((IF Len(reply) >= 2 THEN reply[2] ELSE 0) - 48) % 256

MountErrorDiag(code) == IF code \in DOMAIN errorCodes THEN errorCodes[code] ELSE "none"

\* an exchange that hands a '!' reply to its caller as a success
TalkWithAxis_ErrorIsReply(Axis, Command, cmdDataStr, script, reply) ==
    LET loop == RetryLoop(script, 0)
        cmd  == FormatCommand(Axis, Command, cmdDataStr)
    IN  IF loop.exit = "return false"
        THEN [ok |-> FALSE, responseStr |-> <<>>, attempts |-> loop.attempts,
              diag |-> loop.diag, command |-> cmd]
        ELSE [ok |-> TRUE, responseStr |-> Tail(reply), attempts |-> loop.attempts,
              diag |-> "none", command |-> cmd]

TalkWithAxis(Axis, Command, cmdDataStr, script, reply) ==
    LET loop == RetryLoop(script, 0)
        cmd  == FormatCommand(Axis, Command, cmdDataStr)
    IN  IF loop.exit = "return false"
        THEN [ok |-> FALSE, responseStr |-> <<>>, attempts |-> loop.attempts,
              diag |-> loop.diag, command |-> cmd]
        ELSE IF reply[1] = 33
        THEN [ok |-> FALSE, responseStr |-> Tail(reply), attempts |-> loop.attempts,
              diag |-> MountErrorDiag(MountErrorCode(reply)), command |-> cmd]
        ELSE [ok |-> TRUE, responseStr |-> Tail(reply), attempts |-> loop.attempts,
              diag |-> "none", command |-> cmd]

(***************************************************************************)
(* Rates, calibration and unit conversion                                  *)
(***************************************************************************)
\* Rates are in units of SIDEREALRATE / 100.  One revolution per second
\* (2 * M_PI radians per second) is 86164.09065 * 100 of these units.
SIDEREALRATE == 100
RateUnitsPerRevolution == 8616409
\* 500.0 radians per second, in the same units
MAX_SPEED == 685672047
LOW_SPEED_MARGIN == 128 * SIDEREALRATE

\* (long) of a quotient of non-negative numbers that carries a sign
Trunc(sign, q) == IF sign < 0 THEN -q ELSE q

\* (long)(AngleInRadians * MicrostepsPerRadian[Axis]), the angle given in rate units
RadiansToMicrosteps(Axis, AngleInRadians) ==
    Trunc(AngleInRadians,
          MulDiv(Abs(AngleInRadians), MicrostepsPerRevolution[Axis], RateUnitsPerRevolution))

\* long(double(StepperClockFrequency[Axis]) / (RadiansPerSecond * MicrostepsPerRadian[Axis]))
\* for the positive rate num / den
RadiansPerSecondToClocksTicksPerMicrostep(Axis, num, den) ==
    MulDiv(StepperClockFrequency[Axis] * den, RateUnitsPerRevolution,
           MicrostepsPerRevolution[Axis]) \div num

\* (long)(640 * SIDEREALRATE * MicrostepsPerRadian[axis]), as InitMount stores it
GotoMarginOf(mpr) == MulDiv(640 * SIDEREALRATE, mpr, RateUnitsPerRevolution)

(***************************************************************************)
(* Axis status                                                             *)
(***************************************************************************)
\* AXISSTATUS::AXISSTATUS()
NewAxisStatus ==
    [FullStop |-> FALSE, Slewing |-> FALSE, SlewingTo |-> FALSE,
     SlewingForward |-> FALSE, HighSpeed |-> FALSE, NotInitialized |-> TRUE]

SetFullStop(st) ==
    [st EXCEPT !.FullStop = TRUE, !.SlewingTo = FALSE, !.Slewing = FALSE]

SetSlewing(st, forward, highspeed) ==
    [st EXCEPT !.FullStop = FALSE, !.SlewingTo = FALSE, !.Slewing = TRUE,
               !.SlewingForward = forward, !.HighSpeed = highspeed]

SetSlewingTo(st, forward, highspeed) ==
    [st EXCEPT !.FullStop = FALSE, !.Slewing = FALSE, !.SlewingTo = TRUE,
               !.SlewingForward = forward, !.HighSpeed = highspeed]

IsInMotion(Axis) == AxesStatus[Axis].Slewing \/ AxesStatus[Axis].SlewingTo

\* Response[i] of a std::string: a character of the string, the terminating
\* NUL at i = size(), and beyond that whatever the read out of bounds yields.
ByteAt(Response, i, oob) ==
    IF i < Len(Response) THEN Response[i + 1]
    ELSE IF i = Len(Response) THEN 0 ELSE oob

\* (Response[1] & 0x01) != 0
StatusRunning(Response, oob) == ByteAt(Response, 1, oob) % 2 # 0

\* a decode whose slewing branch leaves the SlewingTo flag as it was
DecodeStatus_KeepsSlewingTo(st, Response, oob) ==
    LET b0 == ByteAt(Response, 0, oob)
        b2 == ByteAt(Response, 2, oob)
        phase == IF StatusRunning(Response, oob)
                 THEN IF b0 % 2 # 0
                      THEN [st EXCEPT !.FullStop = FALSE, !.Slewing = TRUE]
                      ELSE [st EXCEPT !.FullStop = FALSE, !.Slewing = FALSE, !.SlewingTo = TRUE]
                 ELSE [st EXCEPT !.FullStop = TRUE, !.Slewing = FALSE, !.SlewingTo = FALSE]
    IN  [phase EXCEPT !.SlewingForward = ((b0 \div 2) % 2 = 0),
                      !.HighSpeed = ((b0 \div 4) % 2 # 0),
                      !.NotInitialized = (b2 % 2 = 0)]

\* a decode that takes the running bit from Response[0]
DecodeStatus_PhaseFromByte0(st, Response, oob) ==
    LET b0 == ByteAt(Response, 0, oob)
        b1 == ByteAt(Response, 1, oob)
        b2 == ByteAt(Response, 2, oob)
        phase == IF b0 % 2 # 0
                 THEN [st EXCEPT !.FullStop = FALSE,
                                 !.Slewing = (b1 % 2 # 0),
                                 !.SlewingTo = ~(b1 % 2 # 0)]
                 ELSE [st EXCEPT !.FullStop = TRUE, !.Slewing = FALSE, !.SlewingTo = FALSE]
    IN  [phase EXCEPT !.SlewingForward = ((b0 \div 2) % 2 = 0),
                      !.HighSpeed = ((b0 \div 4) % 2 # 0),
                      !.NotInitialized = (b2 % 2 = 0)]

\* the decode of GetStatus, lines 359-407
DecodeStatus(st, Response, oob) ==
    LET b0 == ByteAt(Response, 0, oob)
        b2 == ByteAt(Response, 2, oob)
        phase == IF StatusRunning(Response, oob)
                 THEN [st EXCEPT !.FullStop = FALSE,
                                 !.Slewing = (b0 % 2 # 0),
                                 !.SlewingTo = ~(b0 % 2 # 0)]
                 ELSE [st EXCEPT !.FullStop = TRUE, !.Slewing = FALSE, !.SlewingTo = FALSE]
    IN  [phase EXCEPT !.SlewingForward = ((b0 \div 2) % 2 = 0),
                      !.HighSpeed = ((b0 \div 4) % 2 # 0),
                      !.NotInitialized = (b2 % 2 = 0)]

\* std::stol of the leading hexadecimal digits of a string
RECURSIVE HexStr2long(_, _)
HexStr2long(str, acc) ==
    IF str = <<>> THEN acc
    ELSE LET c == Head(str)
             d == IF c \in 48..57 THEN c - 48
                  ELSE IF c \in 65..70 THEN c - 55
                  ELSE IF c \in 97..102 THEN c - 87 ELSE -1
         IN  IF d < 0 THEN acc ELSE HexStr2long(Tail(str), acc * 16 + d)

\* rENCODER
rENCODER == <<48, 48, 48, 51>>
\* wSET_SPEED
wSET_SPEED == <<48, 50>>
\* wGOTO_SLEW (defined empty)
wGOTO_SLEW == <<>>

\* the value GetEncoder leaves in CurrentEncoders[Axis], x the result of its exchange
GetEncoderValue(cur, adv, x) ==
    IF ~x.ok THEN cur
    ELSE IF adv THEN HexStr2long(SubSeq(x.responseStr, 2, Min(Len(x.responseStr), 9)), 0)
    ELSE LET Microsteps == BCDstr2long(x.responseStr)
         IN  IF Microsteps > 0 THEN Microsteps ELSE cur

(***************************************************************************)
(* The mount and the transport: the inputs the model draws                 *)
(***************************************************************************)
\* the longest stop-and-poll wait the model follows (the code's loop has no limit)
MaxPolls == 2

\* MCVersion >= 0x032200 selects the advanced command set
AdvancedFirmware == 205312
\* the firmware versions for which Slew subtracts 3 ticks
QuirkVersionA == 67072
QuirkVersionB == 67073

\* firmware versions: 1.06.00 (legacy, tick correction), 2.04.00 (legacy), 3.23.00 (advanced)
MCVersionSamples == {QuirkVersionA, 132096, 205568}
\* ":a", ":b", ":g" answers of a stepper mount
MicrostepsSample == 9024000
ClockSample == 64935
RatioSample == 16

Rates == {-(MAX_SPEED + 1), -(LOW_SPEED_MARGIN + 1), -LOW_SPEED_MARGIN, -SIDEREALRATE, 0,
          SIDEREALRATE, LOW_SPEED_MARGIN, LOW_SPEED_MARGIN + 1, MAX_SPEED + 1}
Offsets == {-70000, -150, 0, 150, 70000}
Destinations == {4096}

\* transports of the motion model: a clean exchange, two failed attempts and
\* then a reply, and no reply in three attempts
MainScripts == {<<"ok", "ok", "ok">>, <<"wfail", "short", "ok">>, <<"rerr", "rerr", "rerr">>}
\* "=" and "!2"
AckReplies == {<<61>>, <<33, 50>>}
\* "=" followed by three status characters
StatusOk == {<<61, b0, b1, b2>> : b0 \in 48..55, b1 \in {48, 49}, b2 \in {48, 49}}
\* every status reply, a bare "=", and "!2"
StatusReplies == StatusOk \cup {<<61>>, <<33, 50>>}
\* the status replies of a mount that InitMount has initialised
MotionStatusReplies == {r \in StatusOk : r[4] = 49} \cup {<<61>>, <<33, 50>>}
\* "=011": running in slew-to mode, forward, low speed, initialised
PollReplies == {<<61, 48, 49, 49>>}
\* what a read beyond the end of a short status reply may yield
OutOfBounds == {0, 49}
\* "=000080" (legacy) and "=00001000" (advanced), and "!2"
EncoderReplies(adv) ==
    IF adv THEN {<<61, 48, 48, 48, 48, 49, 48, 48, 48>>, <<33, 50>>}
           ELSE {<<61, 48, 48, 48, 48, 56, 48>>, <<33, 50>>}

\* what the driver reads of an exchange: the return value, the response, the frame written
Seen(x) == [ok |-> x.ok, responseStr |-> x.responseStr, command |-> x.command]

Talk(Axis, Command, cmdDataStr, replies) ==
    {Seen(TalkWithAxis(Axis, Command, cmdDataStr, s, r)) : s \in MainScripts, r \in replies}

NoResult == [ok |-> FALSE, responseStr |-> <<>>, command |-> <<>>]

\* the exchanges of the commands whose callers discard Response
Acks(Axis, Command, cmdDataStr) ==
    {[x EXCEPT !.responseStr = <<>>] : x \in Talk(Axis, Command, cmdDataStr, AckReplies)}

StatusResults(Axis, replies) == Talk(Axis, Ord("f"), <<>>, replies)
EncoderResults(Axis) ==
    IF SupportAdvancedCommandSet
    THEN Talk(Axis, Ord("X"), rENCODER, EncoderReplies(TRUE))
    ELSE Talk(Axis, Ord("j"), <<>>, EncoderReplies(FALSE))

(***************************************************************************)
(* State after construction and initialisation                             *)
(***************************************************************************)
NoFrame ==
    [op |-> "none", Axis |-> AXIS1, Requested |-> 0, Speed |-> 0,
     IgnoreSilentMode |-> FALSE, Offset |-> 0, Forward |-> FALSE, HighSpeed |-> FALSE]

NoExchange ==
    [Axis |-> AXIS1, Command |-> 0, cmdDataStr |-> <<>>, script |-> <<>>, reply |-> <<>>,
     ok |-> FALSE, responseStr |-> <<>>, attempts |-> 0, diag |-> "none", command |-> <<>>]

\* before2, oob2, after2: a second driver that decodes the same response
NoFlags ==
    [op |-> "none", before |-> NewAxisStatus, Response |-> <<>>, oob |-> 0,
     after |-> NewAxisStatus,
     before2 |-> NewAxisStatus, oob2 |-> 0, after2 |-> NewAxisStatus]

\* The constructor's values for the fields it sets; the calibration as
\* InitMount stores it for one of the sample mounts.
\* no conversion made yet
NoCodec == [op |-> "none", Number |-> 0, String |-> <<>>, value |-> 0]

\* the reference position InitMount gives an axis that is already initialised
ReferencePosition(advanced) == IF advanced THEN 0 ELSE 8388608

Init ==
    /\ AxesStatus = [a \in Axes |-> NewAxisStatus]
    /\ CurrentEncoders = [a \in Axes |-> 0]
    /\ LastSlewToTarget = [a \in Axes |-> 0]
    /\ SlewingSpeed = [a \in Axes |-> 0]
    /\ MCVersion \in MCVersionSamples
    /\ SupportAdvancedCommandSet = (MCVersion >= AdvancedFirmware)
    /\ SilentSlewMode = TRUE
    /\ MicrostepsPerRevolution = [a \in Axes |-> MicrostepsSample]
    /\ StepperClockFrequency = [a \in Axes |-> ClockSample]
    /\ HighSpeedRatio = [a \in Axes |-> RatioSample]
    /\ LowSpeedGotoMargin = [a \in Axes |-> GotoMarginOf(MicrostepsSample)]
    /\ pc = "idle"
    /\ frame = NoFrame
    /\ sent = <<>>
    /\ polled = "none"
    /\ failed = FALSE
    /\ ret = "none"
    /\ MountCode = MCVersion % 256
    /\ IsDCMotor = FALSE
    /\ PolarisPositionEncoders = [a \in Axes |-> ReferencePosition(MCVersion >= AdvancedFirmware)]
    /\ ZeroPositionEncoders = [a \in Axes |-> ReferencePosition(MCVersion >= AdvancedFirmware)]
    /\ xchg = NoExchange
    /\ codec = NoCodec
    /\ flags = NoFlags

configVars == <<MCVersion, SupportAdvancedCommandSet, SilentSlewMode, MicrostepsPerRevolution,
                StepperClockFrequency, HighSpeedRatio, LowSpeedGotoMargin, mountVars, xchg, codec, flags>>

\* configVars without the record of the last conversion
fixedVars == <<MCVersion, SupportAdvancedCommandSet, SilentSlewMode, MicrostepsPerRevolution,
               StepperClockFrequency, HighSpeedRatio, LowSpeedGotoMargin, mountVars, xchg, flags>>

Bool2Ret(b) == IF b THEN "true" ELSE "false"

\* the number of status queries among the frames written
StatusFrames(frames) == Cardinality({i \in DOMAIN frames : frames[i][2] = 102})

(***************************************************************************)
(* The driver's functions, as functions of the driver's state m            *)
(***************************************************************************)
\* the driver's mutable state, with the record of the running operation
Cur ==
    [AxesStatus |-> AxesStatus, CurrentEncoders |-> CurrentEncoders,
     LastSlewToTarget |-> LastSlewToTarget, SlewingSpeed |-> SlewingSpeed,
     sent |-> sent, polled |-> polled, failed |-> failed]

Becomes(m) ==
    /\ AxesStatus' = m.AxesStatus
    /\ CurrentEncoders' = m.CurrentEncoders
    /\ LastSlewToTarget' = m.LastSlewToTarget
    /\ SlewingSpeed' = m.SlewingSpeed
    /\ sent' = m.sent
    /\ polled' = m.polled
    /\ failed' = m.failed

\* an exchange has been made with result x
Exchanged(m, x) == [m EXCEPT !.sent = Append(@, x.command), !.failed = (@ \/ ~x.ok)]

\* GetEncoder(Axis), x the result of its exchange
GetEncoderF(m, Axis, x) ==
    [Exchanged(m, x) EXCEPT
        !.CurrentEncoders[Axis] = GetEncoderValue(@, SupportAdvancedCommandSet, x)]

\* a GetStatus that reads the encoder after any motion that has stopped
StatusNeedsEncoder_AnyMotion(m, Axis, x, oob) ==
    /\ x.ok /\ ~(ByteAt(x.responseStr, 1, oob) % 2 # 0)
    /\ (m.AxesStatus[Axis].SlewingTo \/ m.AxesStatus[Axis].Slewing)

\* GetStatus calls GetEncoder: the axis is reported stopped and was in slew-to
StatusNeedsEncoder(m, Axis, x, oob) ==
    x.ok /\ ~StatusRunning(x.responseStr, oob) /\ m.AxesStatus[Axis].SlewingTo

\* a GetStatus that takes a failed exchange for a report of a stopped axis
GetStatusF_FailureStops(m, Axis, x, e, oob) ==
    IF ~x.ok THEN [Exchanged(m, x) EXCEPT !.AxesStatus[Axis] = SetFullStop(@)]
    ELSE LET m1 == Exchanged(m, x)
             m2 == IF x.ok /\ ~(ByteAt(x.responseStr, 1, oob) % 2 # 0)
                      /\ m.AxesStatus[Axis].SlewingTo
                   THEN [Exchanged(m1, e) EXCEPT
                            !.CurrentEncoders[Axis] =
                                GetEncoderValue(@, SupportAdvancedCommandSet, e)]
                   ELSE m1
         IN  [m2 EXCEPT !.AxesStatus[Axis] = DecodeStatus(@, x.responseStr, oob),
                        !.polled = IF ByteAt(x.responseStr, 1, oob) % 2 # 0
                                   THEN "running" ELSE "FullStop"]

\* GetStatus(Axis), x the result of its exchange and e that of GetEncoder's
GetStatusF(m, Axis, x, e, oob) ==
    IF ~x.ok THEN Exchanged(m, x)
    ELSE LET m1 == Exchanged(m, x)
             m2 == IF StatusNeedsEncoder(m, Axis, x, oob) THEN GetEncoderF(m1, Axis, e) ELSE m1
         IN  [m2 EXCEPT !.AxesStatus[Axis] = DecodeStatus(@, x.responseStr, oob),
                        !.polled = IF StatusRunning(x.responseStr, oob)
                                   THEN "running" ELSE "FullStop"]

\* the encoder results and out-of-bounds bytes a status exchange leaves open
EncoderChoices(m, Axis, x, oob) ==
    IF StatusNeedsEncoder(m, Axis, x, oob) THEN EncoderResults(Axis) ELSE {NoResult}
OobChoices(x) == IF x.ok /\ Len(x.responseStr) < 2 THEN OutOfBounds ELSE {0}

\* an InstantStop that marks the axis stopped whatever the exchange returned
InstantStopF_Unconditional(m, Axis, x) ==
    [Exchanged(m, x) EXCEPT !.AxesStatus[Axis] = SetFullStop(@)]

\* InstantStop(Axis)
InstantStopF(m, Axis, x) ==
    IF ~x.ok THEN Exchanged(m, x)
    ELSE [Exchanged(m, x) EXCEPT !.AxesStatus[Axis] = SetFullStop(@)]

\* the advanced branch of Slew and the statements after it, lines 721-735 and 776-777
AdvSpeedPayload(Axis, Speed) == wSET_SPEED \o Hex64Times1024(RadiansToMicrosteps(Axis, Speed))

\* an advanced Slew that asks the axis to stop before it sets the speed
SlewAdvancedF_StopsFirst(m, Axis, Speed, x) ==
    LET k == [x EXCEPT !.command = FormatCommand(Axis, Ord("K"), <<>>)]
    IN  [Exchanged(Exchanged(m, k), x) EXCEPT
            !.AxesStatus[Axis] = SetSlewing(@, Speed > 0, FALSE),
            !.SlewingSpeed[Axis] = Speed]

SlewAdvancedF(m, Axis, Speed, x) ==
    [Exchanged(m, x) EXCEPT !.AxesStatus[Axis] = SetSlewing(@, Speed > 0, FALSE),
                            !.SlewingSpeed[Axis] = Speed]

\* SlowStop(Axis): ":K" on the legacy set, Slew(Axis, 0, true) on the advanced
SlowStopResults(Axis) ==
    IF SupportAdvancedCommandSet
    THEN Acks(Axis, Ord("X"), AdvSpeedPayload(Axis, 0))
    ELSE Acks(Axis, Ord("K"), <<>>)

SlowStopF(m, Axis, x) ==
    IF SupportAdvancedCommandSet THEN SlewAdvancedF(m, Axis, 0, x) ELSE Exchanged(m, x)

\* On the advanced set SlowStop ends without a return statement: the caller
\* reads an unspecified value.
SlowStopReturns(x) ==
    IF SupportAdvancedCommandSet THEN {"true", "false"} ELSE {Bool2Ret(x.ok)}

(***************************************************************************)
(* Operations that make one exchange                                       *)
(***************************************************************************)
\* a completed status poll of the caller's timer: GetStatus(Axis), returned
Poll(Axis) ==
    /\ pc = "idle"
    /\ \E x \in StatusResults(Axis, PollReplies) :
         \E oob \in OobChoices(x) :
           \E e \in EncoderChoices(Cur, Axis, x, oob) :
             LET m == GetStatusF(Cur, Axis, x, e, oob)
             IN  /\ AxesStatus' = m.AxesStatus
                 /\ CurrentEncoders' = m.CurrentEncoders
    /\ UNCHANGED <<LastSlewToTarget, SlewingSpeed, callVars, configVars>>

\* the INDI property handler that toggles silent slewing
SetSilentSlewMode(b) ==
    /\ pc = "idle"
    /\ SilentSlewMode # b
    /\ SilentSlewMode' = b
    /\ UNCHANGED <<progVars, callVars, MCVersion, SupportAdvancedCommandSet,
                   MicrostepsPerRevolution, StepperClockFrequency, HighSpeedRatio,
                   LowSpeedGotoMargin, mountVars, xchg, codec, flags>>

GetStatus(Axis) ==
    /\ pc = "idle"
    /\ \E x \in StatusResults(Axis, StatusReplies) :
         \E oob \in OobChoices(x) :
           \E e \in EncoderChoices(Cur, Axis, x, oob) :
             /\ Becomes(GetStatusF(Cur, Axis, x, e, oob))
             /\ ret' = Bool2Ret(x.ok)
    /\ frame' = [NoFrame EXCEPT !.op = "GetStatus", !.Axis = Axis]
    /\ pc' = "done"
    /\ UNCHANGED configVars

GetEncoder(Axis) ==
    /\ pc = "idle"
    /\ \E x \in EncoderResults(Axis) :
         /\ Becomes(GetEncoderF(Cur, Axis, x))
         /\ ret' = Bool2Ret(x.ok)
    /\ frame' = [NoFrame EXCEPT !.op = "GetEncoder", !.Axis = Axis]
    /\ pc' = "done"
    /\ UNCHANGED configVars

\* the encoder values SetEncoder is called with
EncoderSettings == {0, 8388608}

\* #define wSET_ENCODER "01"
wSET_ENCODER == <<48, 49>>

\* the exchange of SetEncoder: 'E' with the BCD string on the legacy set; on
\* the advanced set the command word and 8 hexadecimal digits in an 'X' frame
SetEncoderResults(Axis, Microsteps) ==
    IF SupportAdvancedCommandSet
    THEN Acks(Axis, Ord("X"), wSET_ENCODER \o HexField(Microsteps, 8))
    ELSE Acks(Axis, Ord("E"), Long2BCDstr(Microsteps))

\* SetEncoder taking the value it sends for the axis's resolution
SetEncoder_StoresResolution(Axis, Microsteps) ==
    /\ pc = "idle"
    /\ \E x \in SetEncoderResults(Axis, Microsteps) :
         /\ Becomes(Exchanged(Cur, x))
         /\ ret' = Bool2Ret(x.ok)
         /\ MicrostepsPerRevolution' = [MicrostepsPerRevolution EXCEPT ![Axis] = Microsteps]
    /\ frame' = [NoFrame EXCEPT !.op = "SetEncoder", !.Axis = Axis]
    /\ pc' = "done"
    /\ UNCHANGED <<MCVersion, SupportAdvancedCommandSet, SilentSlewMode, StepperClockFrequency,
                   HighSpeedRatio, LowSpeedGotoMargin, mountVars, xchg, codec, flags>>

SetEncoder(Axis, Microsteps) ==
    /\ pc = "idle"
    /\ \E x \in SetEncoderResults(Axis, Microsteps) :
         /\ Becomes(Exchanged(Cur, x))
         /\ ret' = Bool2Ret(x.ok)
    /\ frame' = [NoFrame EXCEPT !.op = "SetEncoder", !.Axis = Axis]
    /\ pc' = "done"
    /\ UNCHANGED configVars

InstantStop(Axis) ==
    /\ pc = "idle"
    /\ \E x \in Acks(Axis, Ord("L"), <<>>) :
         /\ Becomes(InstantStopF(Cur, Axis, x))
         /\ ret' = Bool2Ret(x.ok)
    /\ frame' = [NoFrame EXCEPT !.op = "InstantStop", !.Axis = Axis]
    /\ pc' = "done"
    /\ UNCHANGED configVars

SlowStop(Axis) ==
    /\ pc = "idle"
    /\ \E x \in SlowStopResults(Axis) :
         /\ Becomes(SlowStopF(Cur, Axis, x))
         /\ ret' \in SlowStopReturns(x)
    /\ frame' = [NoFrame EXCEPT !.op = "SlowStop", !.Axis = Axis]
    /\ pc' = "done"
    /\ UNCHANGED configVars

\* the caller takes the result; the driver is ready for the next call
Return ==
    /\ pc = "done"
    /\ pc' = "idle"
    /\ frame' = NoFrame
    /\ sent' = <<>>
    /\ polled' = "none"
    /\ failed' = FALSE
    /\ ret' = "none"
    /\ UNCHANGED <<progVars, configVars>>

(***************************************************************************)
(* Slew and PrepareForSlewing                                              *)
(***************************************************************************)
\* lines 716-719
ClampSpeed(SpeedInRadiansPerSecond) ==
    IF SpeedInRadiansPerSecond > MAX_SPEED THEN MAX_SPEED
    ELSE IF SpeedInRadiansPerSecond < -MAX_SPEED THEN -MAX_SPEED
    ELSE SpeedInRadiansPerSecond

\* std::abs(InternalSpeed) <= SIDEREALRATE / 1000.0
NearZero(InternalSpeed) == Abs(InternalSpeed) <= SIDEREALRATE \div 1000

\* a PrepareForSlewing that lets a reversal of direction pass
PFS_MustStop_NoReversal(st, Speed) ==
    st.SlewingTo \/ st.HighSpeed \/ Abs(Speed) >= LOW_SPEED_MARGIN

\* the condition of lines 566-570
PFS_MustStop(st, Speed) ==
    \/ st.SlewingTo
    \/ st.HighSpeed
    \/ Abs(Speed) >= LOW_SPEED_MARGIN
    \/ (st.SlewingForward /\ Speed < 0)
    \/ (~st.SlewingForward /\ Speed > 0)

\* where PrepareForSlewing goes after its first successful GetStatus
PFS_AfterStatus(st, Speed) ==
    IF st.FullStop THEN "SetMotionMode"
    ELSE IF PFS_MustStop(st, Speed) THEN "SlowStop"
    ELSE "return"

\* a loop that ends after its first poll, whatever the poll saw
PollLoopExit_AfterOnePoll(st) == TRUE

\* a loop that also ends when the axis is seen slewing
PollLoopExit_OnSlewing(st) == st.FullStop \/ st.Slewing

\* the exit test of the polling loops, lines 584 and 826
PollLoopExit(st) == st.FullStop

\* lines 592-598
PFS_Direction(Speed) == IF Speed > 0 THEN Ord("0") ELSE Ord("1")
\* lines 600-603
\* a threshold that takes LOW_SPEED_MARGIN itself for high speed
PFS_Func_Inclusive(Speed) == IF Abs(Speed) >= LOW_SPEED_MARGIN THEN Ord("3") ELSE Ord("1")

PFS_Func(Speed) == IF Abs(Speed) > LOW_SPEED_MARGIN THEN Ord("3") ELSE Ord("1")

\* line 760
SlewHighSpeed(Speed, IgnoreSilentMode) ==
    Abs(Speed) > LOW_SPEED_MARGIN /\ (IgnoreSilentMode \/ ~SilentSlewMode)

\* lines 762-769
SlewSpeedInt(Axis, Speed, IgnoreSilentMode) ==
    LET den == IF SlewHighSpeed(Speed, IgnoreSilentMode) THEN HighSpeedRatio[Axis] ELSE 1
        raw == RadiansPerSecondToClocksTicksPerMicrostep(Axis, Abs(Speed), den)
        adj == IF MCVersion = QuirkVersionA \/ MCVersion = QuirkVersionB THEN raw - 3 ELSE raw
    IN  IF adj < 6 THEN 6 ELSE adj

\* a Slew whose PrepareForSlewing sets the motion mode on every path
SlewFinish_AlwaysMode(m, fr, withMode) ==
    \E g \in Acks(fr.Axis, Ord("G"), <<PFS_Func(fr.Speed), PFS_Direction(fr.Speed)>>) :
    \E i \in Acks(fr.Axis, Ord("I"),
                  Long2BCDstr(SlewSpeedInt(fr.Axis, fr.Speed, fr.IgnoreSilentMode))) :
    \E j \in Acks(fr.Axis, Ord("J"), <<>>) :
      LET m2 == Exchanged(Exchanged(Exchanged(m, g), i), j)
      IN  /\ Becomes([m2 EXCEPT !.AxesStatus[fr.Axis] = SetSlewing(@, fr.Forward, fr.HighSpeed),
                                !.SlewingSpeed[fr.Axis] = fr.Speed])
          /\ frame' = fr
          /\ pc' = "done"
          /\ ret' = "void"

\* the rest of Slew once PrepareForSlewing is past its polls: SetMotionMode
\* unless PrepareForSlewing returned early, then lines 749-777
SlewFinish(m, fr, withMode) ==
    \E g \in IF withMode
             THEN Acks(fr.Axis, Ord("G"), <<PFS_Func(fr.Speed), PFS_Direction(fr.Speed)>>)
             ELSE {NoResult} :
    \E i \in Acks(fr.Axis, Ord("I"),
                  Long2BCDstr(SlewSpeedInt(fr.Axis, fr.Speed, fr.IgnoreSilentMode))) :
    \E j \in Acks(fr.Axis, Ord("J"), <<>>) :
      LET m1 == IF withMode THEN Exchanged(m, g) ELSE m
          m2 == Exchanged(Exchanged(m1, i), j)
      IN  /\ Becomes([m2 EXCEPT !.AxesStatus[fr.Axis] = SetSlewing(@, fr.Forward, fr.HighSpeed),
                                !.SlewingSpeed[fr.Axis] = fr.Speed])
          /\ frame' = fr
          /\ pc' = "done"
          /\ ret' = "void"

Slew(Axis, SpeedInRadiansPerSecond, IgnoreSilentMode) ==
    /\ pc = "idle"
    /\ LET Speed == ClampSpeed(SpeedInRadiansPerSecond)
           fr == [NoFrame EXCEPT !.op = "Slew", !.Axis = Axis,
                                 !.Requested = SpeedInRadiansPerSecond, !.Speed = Speed,
                                 !.IgnoreSilentMode = IgnoreSilentMode]
       IN  IF SupportAdvancedCommandSet
           THEN \E x \in Acks(Axis, Ord("X"), AdvSpeedPayload(Axis, Speed)) :
                  /\ Becomes(SlewAdvancedF(Cur, Axis, Speed, x))
                  /\ frame' = [fr EXCEPT !.Forward = (Speed > 0)]
                  /\ pc' = "done"
                  /\ ret' = "void"
           ELSE IF NearZero(Speed)
           THEN \E x \in SlowStopResults(Axis) :
                  /\ Becomes(SlowStopF(Cur, Axis, x))
                  /\ frame' = fr
                  /\ pc' = "done"
                  /\ ret' = "void"
           ELSE \E x \in StatusResults(Axis, MotionStatusReplies) :
                \E oob \in OobChoices(x) :
                \E e \in EncoderChoices(Cur, Axis, x, oob) :
                  LET m == GetStatusF(Cur, Axis, x, e, oob)
                      to == PFS_AfterStatus(m.AxesStatus[Axis], Speed)
                  IN  IF ~x.ok \/ to = "return" THEN SlewFinish(m, fr, FALSE)
                      ELSE IF to = "SetMotionMode" THEN SlewFinish(m, fr, TRUE)
                      ELSE \E k \in SlowStopResults(Axis) :
                             /\ Becomes(SlowStopF(m, Axis, k))
                             /\ frame' = fr
                             /\ pc' = "PFS_Poll"
                             /\ ret' = "none"
    /\ UNCHANGED configVars

\* the end of PrepareForSlewing called on its own: SetMotionMode, lines 591-603
PFS_Finish(m, fr) ==
    \E g \in Acks(fr.Axis, Ord("G"), <<PFS_Func(fr.Speed), PFS_Direction(fr.Speed)>>) :
      /\ Becomes(Exchanged(m, g))
      /\ frame' = fr
      /\ pc' = "done"
      /\ ret' = "void"

\* PrepareForSlewing(Axis, Speed) as Slew calls it (legacy set, a speed that
\* is not near zero), up to its return or to the first round of its loop
PrepareForSlewing(Axis, Speed) ==
    /\ pc = "idle"
    /\ ~SupportAdvancedCommandSet
    /\ ~NearZero(Speed)
    /\ LET fr == [NoFrame EXCEPT !.op = "PrepareForSlewing", !.Axis = Axis,
                                 !.Requested = Speed, !.Speed = Speed]
       IN  \E x \in StatusResults(Axis, MotionStatusReplies) :
           \E oob \in OobChoices(x) :
           \E e \in EncoderChoices(Cur, Axis, x, oob) :
             LET m  == GetStatusF(Cur, Axis, x, e, oob)
                 to == PFS_AfterStatus(m.AxesStatus[Axis], Speed)
             IN  IF ~x.ok \/ to = "return"
                 THEN /\ Becomes(m)
                      /\ frame' = fr
                      /\ pc' = "done"
                      /\ ret' = "void"
                 ELSE IF to = "SetMotionMode" THEN PFS_Finish(m, fr)
                 ELSE \E k \in SlowStopResults(Axis) :
                        /\ Becomes(SlowStopF(m, Axis, k))
                        /\ frame' = fr
                        /\ pc' = "PFS_Poll"
                        /\ ret' = "none"
    /\ UNCHANGED configVars

\* one round of the polling loop of PrepareForSlewing, lines 579-588, and,
\* when the loop ends, the rest of PrepareForSlewing and of Slew
PFS_Poll ==
    /\ pc = "PFS_Poll"
    /\ StatusFrames(sent) <= MaxPolls
    /\ \E x \in StatusResults(frame.Axis, MotionStatusReplies) :
       \E oob \in OobChoices(x) :
       \E e \in EncoderChoices(Cur, frame.Axis, x, oob) :
         LET m == GetStatusF(Cur, frame.Axis, x, e, oob)
         IN  IF PollLoopExit(m.AxesStatus[frame.Axis])
             THEN IF frame.op = "Slew" THEN SlewFinish(m, frame, TRUE)
                  ELSE PFS_Finish(m, frame)
             ELSE /\ Becomes(m)
                  /\ UNCHANGED <<pc, frame, ret>>
    /\ UNCHANGED configVars

(***************************************************************************)
(* SlewTo and SlewTo_Advanced                                              *)
(***************************************************************************)
\* a SlewTo without the test of line 783
SlewTo_NothingToDo_Never(OffsetInMicrosteps) == FALSE

\* line 783
SlewTo_NothingToDo(OffsetInMicrosteps) == 0 = OffsetInMicrosteps

\* line 804, for the magnitude of the offset
SlewTo_HighSpeed(Axis, Offset) == Offset > LowSpeedGotoMargin[Axis] /\ ~SilentSlewMode

\* the condition of lines 812-816
SlewTo_MustStop(st, Forward, HighSpeed) ==
    \/ st.SlewingTo
    \/ st.HighSpeed
    \/ HighSpeed
    \/ (st.SlewingForward /\ ~Forward)
    \/ (~st.SlewingForward /\ Forward)

\* where SlewTo goes after its successful GetStatus, lines 809-832
SlewTo_AfterStatus(st, Forward, HighSpeed) ==
    IF ~st.FullStop /\ SlewTo_MustStop(st, Forward, HighSpeed) THEN "SlowStop"
    ELSE "SetMotionMode"

\* lines 834-837, 794-802
SlewTo_Func(HighSpeed) == IF HighSpeed THEN Ord("0") ELSE Ord("2")
SlewTo_Direction(Forward) == IF Forward THEN Ord("0") ELSE Ord("1")

\* lines 841-844
SlewTo_RampLength(Offset, HighSpeed) ==
    IF HighSpeed THEN (IF Offset > 3200 THEN 3200 ELSE Offset)
    ELSE (IF Offset > 200 THEN 200 ELSE Offset)

\* a SlewTo that starts the motion without the ramp length ('M')
SlewToFinish_NoRamp(m, fr) ==
    \E g \in Acks(fr.Axis, Ord("G"),
                  <<SlewTo_Func(fr.HighSpeed), SlewTo_Direction(fr.Forward)>>) :
    \E h \in Acks(fr.Axis, Ord("H"), Long2BCDstr(fr.Offset)) :
    \E j \in Acks(fr.Axis, Ord("J"), <<>>) :
      LET m1 == Exchanged(Exchanged(Exchanged(m, g), h), j)
      IN  /\ Becomes([m1 EXCEPT !.AxesStatus[fr.Axis] = SetSlewingTo(@, fr.Forward, fr.HighSpeed)])
          /\ frame' = fr
          /\ pc' = "done"
          /\ ret' = "void"

\* lines 834-847
SlewToFinish(m, fr) ==
    \E g \in Acks(fr.Axis, Ord("G"),
                  <<SlewTo_Func(fr.HighSpeed), SlewTo_Direction(fr.Forward)>>) :
    \E h \in Acks(fr.Axis, Ord("H"), Long2BCDstr(fr.Offset)) :
    \E r \in Acks(fr.Axis, Ord("M"),
                  Long2BCDstr(SlewTo_RampLength(fr.Offset, fr.HighSpeed))) :
    \E j \in Acks(fr.Axis, Ord("J"), <<>>) :
      LET m1 == Exchanged(Exchanged(Exchanged(Exchanged(m, g), h), r), j)
      IN  /\ Becomes([m1 EXCEPT !.AxesStatus[fr.Axis] = SetSlewingTo(@, fr.Forward, fr.HighSpeed)])
          /\ frame' = fr
          /\ pc' = "done"
          /\ ret' = "void"

SlewTo(Axis, OffsetInMicrosteps, verbose) ==
    /\ pc = "idle"
    /\ LET Offset == Abs(OffsetInMicrosteps)
           fr == [NoFrame EXCEPT !.op = "SlewTo", !.Axis = Axis,
                                 !.Requested = OffsetInMicrosteps, !.Offset = Offset,
                                 !.Forward = ~(OffsetInMicrosteps < 0),
                                 !.HighSpeed = SlewTo_HighSpeed(Axis, Offset)]
           m0 == [Cur EXCEPT !.LastSlewToTarget[Axis] =
                                 CurrentEncoders[Axis] + OffsetInMicrosteps]
       IN  IF SlewTo_NothingToDo(OffsetInMicrosteps)
           THEN /\ Becomes(Cur)
                /\ frame' = fr
                /\ pc' = "done"
                /\ ret' = "void"
           ELSE \E x \in StatusResults(Axis, MotionStatusReplies) :
                \E oob \in OobChoices(x) :
                \E e \in EncoderChoices(m0, Axis, x, oob) :
                  LET m == GetStatusF(m0, Axis, x, e, oob)
                  IN  IF ~x.ok
                      THEN /\ Becomes(m)
                           /\ frame' = fr
                           /\ pc' = "done"
                           /\ ret' = "void"
                      ELSE IF SlewTo_AfterStatus(m.AxesStatus[Axis], fr.Forward, fr.HighSpeed)
                              = "SetMotionMode"
                      THEN SlewToFinish(m, fr)
                      ELSE \E k \in SlowStopResults(Axis) :
                             /\ Becomes(SlowStopF(m, Axis, k))
                             /\ frame' = fr
                             /\ pc' = "SlewTo_Poll"
                             /\ ret' = "none"
    /\ UNCHANGED configVars

\* one round of the polling loop of SlewTo, lines 821-830, and, when the
\* loop ends, the rest of SlewTo
SlewTo_Poll ==
    /\ pc = "SlewTo_Poll"
    /\ StatusFrames(sent) <= MaxPolls
    /\ \E x \in StatusResults(frame.Axis, MotionStatusReplies) :
       \E oob \in OobChoices(x) :
       \E e \in EncoderChoices(Cur, frame.Axis, x, oob) :
         LET m == GetStatusF(Cur, frame.Axis, x, e, oob)
         IN  IF PollLoopExit(m.AxesStatus[frame.Axis]) THEN SlewToFinish(m, frame)
             ELSE /\ Becomes(m)
                  /\ UNCHANGED <<pc, frame, ret>>
    /\ UNCHANGED configVars

\* lines 866-870: the destination in 8 hexadecimal digits; the statement ends
\* there, and the sixteen zeros of line 869 are not part of the payload
AdvGotoPayload(Destination) == wGOTO_SLEW \o HexField(Destination, 8)

\* Line 874 reads SpeedInRadiansPerSecond, which this function does not
\* declare: Forward is whatever the build makes of it.
SlewTo_Advanced(Axis, Destination, verbose) ==
    /\ pc = "idle"
    /\ SupportAdvancedCommandSet
    /\ \E x \in Acks(Axis, Ord("X"), AdvGotoPayload(Destination)) :
       \E Forward \in BOOLEAN :
         /\ Becomes([Exchanged(Cur, x) EXCEPT
                        !.LastSlewToTarget[Axis] = Destination,
                        !.AxesStatus[Axis] = SetSlewingTo(@, Forward, FALSE)])
         /\ frame' = [NoFrame EXCEPT !.op = "SlewTo_Advanced", !.Axis = Axis,
                                     !.Requested = Destination, !.Forward = Forward]
    /\ pc' = "done"
    /\ ret' = "void"
    /\ UNCHANGED configVars

(***************************************************************************)
(* Specifications                                                          *)
(***************************************************************************)
\* The driver is single-threaded: the caller runs one operation at a time.
\* Each specification follows the status polls of the caller's timer and
\* then one operation of a group to its end.

\* the operations that make one exchange (GetStatus at most two)
NextStatus ==
    \/ \E a \in Axes : Poll(a)
    \/ \E a \in Axes : GetStatus(a)
    \/ \E a \in Axes : GetEncoder(a)
    \/ \E a \in Axes : InstantStop(a)
    \/ \E a \in Axes : SlowStop(a)
    \/ \E a \in Axes, d \in Destinations : SlewTo_Advanced(a, d, FALSE)

SpecStatus == Init /\ [][NextStatus]_vars

NextSlew ==
    \/ \E a \in Axes : Poll(a)
    \/ \E b \in BOOLEAN : SetSilentSlewMode(b)
    \/ \E a \in Axes, r \in Rates, i \in BOOLEAN : Slew(a, r, i)
    \/ PFS_Poll

SpecSlew == Init /\ [][NextSlew]_vars

NextSlewTo ==
    \/ \E a \in Axes : Poll(a)
    \/ \E b \in BOOLEAN : SetSilentSlewMode(b)
    \/ \E a \in Axes, o \in Offsets : SlewTo(a, o, FALSE)
    \/ SlewTo_Poll

SpecSlewTo == Init /\ [][NextSlewTo]_vars

(***************************************************************************)
(* One exchange on its own                                                 *)
(***************************************************************************)
\* replies before the CR: "=", "=101", "!", "!0", "!2", "!5", "!6", "!9", "!:", "!2x"
TalkReplies ==
    {<<61>>, <<61, 49, 48, 49>>, <<33>>, <<33, 48>>, <<33, 50>>, <<33, 53>>, <<33, 54>>,
     <<33, 57>>, <<33, 58>>, <<33, 50, 120>>}

\* ":f", ":G31", and ":X" with an 18-character payload
TalkCommands ==
    {<<Ord("f"), <<>>>>, <<Ord("G"), <<51, 49>>>>,
     <<Ord("X"), wSET_SPEED \o Hex64Times1024(4096)>>}

TalkStep ==
    /\ xchg = NoExchange
    /\ \E a \in Axes, c \in TalkCommands, s \in Scripts, r \in TalkReplies :
         xchg' = [Axis |-> a, Command |-> c[1], cmdDataStr |-> c[2], script |-> s, reply |-> r]
                 @@ TalkWithAxis(a, c[1], c[2], s, r)
    /\ UNCHANGED <<progVars, callVars, MCVersion, SupportAdvancedCommandSet, SilentSlewMode,
                   MicrostepsPerRevolution, StepperClockFrequency, HighSpeedRatio,
                   LowSpeedGotoMargin, mountVars, codec, flags>>

NextTalk == TalkStep

SpecTalk == Init /\ [][NextTalk]_vars

(***************************************************************************)
(* One change of an AXISSTATUS on its own                                  *)
(***************************************************************************)
\* every value of the six flags
FlagStates ==
    [FullStop : BOOLEAN, Slewing : BOOLEAN, SlewingTo : BOOLEAN,
     SlewingForward : BOOLEAN, HighSpeed : BOOLEAN, NotInitialized : BOOLEAN]

\* the responses GetStatus may decode: what follows "=" in a status reply,
\* complete or cut short
StatusResponses ==
    {SubSeq(r, 2, n) : r \in StatusOk, n \in 1..4}

FlagsStep ==
    /\ flags = NoFlags
    /\ \E st \in FlagStates :
         \/ \E r \in StatusResponses, oob \in OutOfBounds :
              flags' = [NoFlags EXCEPT !.op = "GetStatus", !.before = st, !.Response = r,
                                       !.oob = oob, !.after = DecodeStatus(st, r, oob)]
         \/ flags' = [NoFlags EXCEPT !.op = "SetFullStop", !.before = st,
                                     !.after = SetFullStop(st)]
         \/ \E f \in BOOLEAN, h \in BOOLEAN :
              flags' = [NoFlags EXCEPT !.op = "SetSlewing", !.before = st,
                                       !.after = SetSlewing(st, f, h)]
         \/ \E f \in BOOLEAN, h \in BOOLEAN :
              flags' = [NoFlags EXCEPT !.op = "SetSlewingTo", !.before = st,
                                       !.after = SetSlewingTo(st, f, h)]
    /\ UNCHANGED <<progVars, callVars, MCVersion, SupportAdvancedCommandSet, SilentSlewMode,
                   MicrostepsPerRevolution, StepperClockFrequency, HighSpeedRatio,
                   LowSpeedGotoMargin, mountVars, xchg, codec>>

NextFlags == FlagsStep

SpecFlags == Init /\ [][NextFlags]_vars

(***************************************************************************)
(* Properties                                                              *)
(***************************************************************************)
\* the number of phase flags that are set
PhaseFlags(st) == Cardinality({f \in {"FullStop", "Slewing", "SlewingTo"} : st[f]})

\* C1: after a status decode, and after SetFullStop, SetSlewing or
\* SetSlewingTo, exactly one of FullStop, Slewing and SlewingTo is set,
\* whatever the flags were before and whatever the response holds.
C1_ExactlyOnePhase == flags.op # "none" => PhaseFlags(flags.after) = 1

\* a decode of a running, slewing status over flags that had SlewingTo and FullStop set
C1_Witness ==
    /\ flags.op = "GetStatus"
    /\ flags.before.SlewingTo /\ flags.before.FullStop
    /\ flags.after.Slewing /\ ~flags.after.SlewingTo /\ ~flags.after.FullStop

\* the first attempt of a script on which the write succeeds and the read
\* returns TTY_OK with 2 bytes or more; 0 when there is none
FirstGood(script) ==
    IF \E i \in DOMAIN script : script[i] = "ok"
    THEN CHOOSE i \in DOMAIN script :
           script[i] = "ok" /\ \A j \in DOMAIN script : script[j] = "ok" => i <= j
    ELSE 0

\* C4: an exchange makes at most SKYWATCHER_MAX_RETRTY attempts and stops at
\* the first good one; two write failures and then a good attempt give
\* success after exactly 3 attempts; reads that always return 1 byte give
\* failure after exactly 3 attempts.
C4_RetryBudget ==
    xchg.attempts > 0 =>
        /\ xchg.attempts <= SKYWATCHER_MAX_RETRTY
        /\ xchg.attempts = IF FirstGood(xchg.script) = 0 THEN SKYWATCHER_MAX_RETRTY
                           ELSE FirstGood(xchg.script)
        /\ (xchg.script = <<"wfail", "wfail", "ok">> /\ xchg.reply[1] # 33
               => xchg.ok /\ xchg.attempts = 3)
        /\ (xchg.script = <<"short", "short", "short">> => ~xchg.ok /\ xchg.attempts = 3)

C4_Witness ==
    /\ xchg.script = <<"wfail", "wfail", "ok">>
    /\ xchg.reply = <<61, 49, 48, 49>>
    /\ xchg.ok /\ xchg.attempts = 3

\* C5: a reply that begins with '!' ends the exchange on the attempt that
\* read it, the exchange reports failure, and the response handed back is
\* the text after the '!'.
C5_ErrorReplyEndsExchange ==
    (xchg.attempts > 0 /\ FirstGood(xchg.script) # 0 /\ xchg.reply[1] = 33) =>
        /\ ~xchg.ok
        /\ xchg.attempts = FirstGood(xchg.script)
        /\ xchg.responseStr = Tail(xchg.reply)

\* "!2" read on the second attempt
C5_Witness ==
    /\ xchg.script = <<"short", "ok", "ok">>
    /\ xchg.reply = <<33, 50>>
    /\ ~xchg.ok /\ xchg.attempts = 2 /\ xchg.responseStr = <<50>>

\* C7: an error reply with a code of the table is reported with the table's
\* reason, and one with any other code as an unknown error.
C7_ErrorReported ==
    (xchg.attempts > 0 /\ FirstGood(xchg.script) # 0 /\ xchg.reply[1] = 33) =>
        LET code == MountErrorCode(xchg.reply)
        IN  IF code \in DOMAIN errorCodes THEN xchg.diag = errorCodes[code]
            ELSE xchg.diag = "unknown error"

\* the positions in `frames` of the frames of command c
FramesOf(frames, c) == {i \in DOMAIN frames : frames[i][2] = Ord(c)}

\* C2: SlewTo sends the set-motion-mode command ('G') only when the most
\* recent successful status poll of the axis reported FullStop.
C2_ModeAfterFullStop ==
    (frame.op = "SlewTo" /\ FramesOf(sent, "G") # {}) => polled = "FullStop"

\* C3: in the legacy Slew path 'G' is sent only when the status poll before
\* it reported FullStop; an axis seen running is either left in its mode
\* (no 'G') or asked to stop ('K') and polled until FullStop is seen.
C3_ModeAfterFullStop ==
    (frame.op = "Slew" /\ ~SupportAdvancedCommandSet) =>
        /\ FramesOf(sent, "G") # {} =>
              /\ polled = "FullStop"
              /\ \A g \in FramesOf(sent, "G") : \E f \in FramesOf(sent, "f") : f < g
              /\ \A k \in FramesOf(sent, "K"), g \in FramesOf(sent, "G") :
                    \E f \in FramesOf(sent, "f") : k < f /\ f < g
        /\ pc = "PFS_Poll" => (FramesOf(sent, "K") # {} /\ FramesOf(sent, "G") = {})
        /\ (pc = "done" /\ polled = "running") => FramesOf(sent, "K") = {}

\* stopped, polled twice, then the mode set
C3_Witness ==
    /\ frame.op = "Slew" /\ pc = "done"
    /\ FramesOf(sent, "K") # {} /\ FramesOf(sent, "G") # {}
    /\ StatusFrames(sent) = 3
    /\ polled = "FullStop"

\* C6: an exchange that fails inside an operation makes the operation
\* report failure to its caller.
C6_FailurePropagates == (pc = "done" /\ failed) => ret = "false"

\* the snapshot of a SlewTo with offset 0
C8_ZeroOffsetStep ==
    pc = "idle" /\ pc' = "done" /\ frame'.op = "SlewTo" /\ frame'.Requested = 0

\* C8: SlewTo with offset 0 makes no exchange and leaves AxesStatus,
\* CurrentEncoders and LastSlewToTarget of both axes as they were.
C8_ZeroOffsetNoOp ==
    [][C8_ZeroOffsetStep =>
          /\ sent' = <<>>
          /\ AxesStatus' = AxesStatus
          /\ CurrentEncoders' = CurrentEncoders
          /\ LastSlewToTarget' = LastSlewToTarget]_vars

\* SlewTo with offset 0 has returned, the axis having been seen in slew-to mode
C8_Witness ==
    /\ pc = "done" /\ frame.op = "SlewTo" /\ frame.Requested = 0
    /\ sent = <<>>
    /\ AxesStatus[frame.Axis].SlewingTo

\* C9: every Slew ends with the axis marked Slewing, SlewingForward equal
\* to (rate > 0), HighSpeed equal to the high-speed decision, and
\* SlewingSpeed equal to the clamped rate.
C9_SlewOutcome ==
    (pc = "done" /\ frame.op = "Slew") =>
        LET st == AxesStatus[frame.Axis]
        IN  /\ st.Slewing /\ ~st.FullStop /\ ~st.SlewingTo
            /\ st.SlewingForward = (frame.Requested > 0)
            /\ ~SupportAdvancedCommandSet =>
                  st.HighSpeed = SlewHighSpeed(frame.Speed, frame.IgnoreSilentMode)
            /\ SlewingSpeed[frame.Axis] = ClampSpeed(frame.Requested)

NextStop ==
    \/ \E a \in Axes : Poll(a)
    \/ \E a \in Axes : InstantStop(a)
    \/ \E a \in Axes : SlowStop(a)
    \/ Return

SpecStop == Init /\ [][NextStop]_vars

\* the frame of a command without payload
BareFrame(c, Axis) == <<58, Ord(c), (IF Axis = AXIS1 THEN 49 ELSE 50), CR>>

\* InstantStop is called and returns
C11_InstantStopStep == pc = "idle" /\ pc' = "done" /\ frame'.op = "InstantStop"

\* C11: InstantStop makes exactly one exchange, the 'L' command, and no
\* status poll; when the exchange succeeds it returns true with the axis
\* marked FullStop (not in motion); when the exchange fails it returns false
\* and leaves the status as it was.
C11_InstantStopForcesFullStop ==
    [][C11_InstantStopStep =>
          LET a == frame'.Axis
          IN  /\ sent' = <<BareFrame("L", a)>>
              /\ ret' = Bool2Ret(~failed')
              /\ ~failed' => /\ AxesStatus'[a].FullStop
                             /\ ~(AxesStatus'[a].Slewing \/ AxesStatus'[a].SlewingTo)
              /\ failed' => AxesStatus' = AxesStatus
              /\ \A b \in Axes \ {a} : AxesStatus'[b] = AxesStatus[b]]_vars

\* InstantStop has succeeded on an axis last polled running in slew-to mode
C11_Witness ==
    /\ pc = "done" /\ frame.op = "InstantStop" /\ ret = "true"
    /\ sent = <<BareFrame("L", frame.Axis)>>
    /\ AxesStatus[frame.Axis].FullStop /\ ~IsInMotion(frame.Axis)
    /\ AxesStatus[frame.Axis].SlewingForward /\ ~AxesStatus[frame.Axis].NotInitialized

\* a stop request is made for an axis whose status is FullStop, and returns
C12_StopOfStoppedStep ==
    /\ pc = "idle" /\ pc' = "done"
    /\ frame'.op \in {"InstantStop", "SlowStop"}
    /\ AxesStatus[frame'.Axis].FullStop

\* C12: a stop request for an axis whose status is FullStop sends the stop
\* command again, succeeds when the exchange does, and leaves the status
\* FullStop, so that a second request changes nothing.
C12_StopIsIdempotent ==
    [][C12_StopOfStoppedStep =>
          /\ Len(sent') = 1
          /\ ~failed' => ret' = "true"
          /\ AxesStatus' = AxesStatus]_vars

\* C13: the bytes written for an exchange are ':', the command, the axis
\* character, the whole payload and CR.
C13_FrameComplete ==
    xchg.attempts > 0 =>
        xchg.command = <<58, xchg.Command, (IF xchg.Axis = AXIS1 THEN 49 ELSE 50)>>
                       \o xchg.cmdDataStr \o <<CR>>

(***************************************************************************)
(* Two drivers decode the same status response                             *)
(***************************************************************************)
\* the status of the second driver before the poll: as constructed, stopped,
\* and in a fast forward slew-to
TwinStates ==
    {NewAxisStatus, SetFullStop(NewAxisStatus), SetSlewingTo(NewAxisStatus, TRUE, TRUE)}

TwinPollStep ==
    /\ flags = NoFlags
    /\ \E st \in FlagStates, st2 \in TwinStates, r \in StatusResponses :
       \E oob \in OutOfBounds, oob2 \in OutOfBounds :
         flags' = [NoFlags EXCEPT !.op = "TwinPoll", !.Response = r,
                                  !.before = st, !.oob = oob,
                                  !.after = DecodeStatus(st, r, oob),
                                  !.before2 = st2, !.oob2 = oob2,
                                  !.after2 = DecodeStatus(st2, r, oob2)]
    /\ UNCHANGED <<progVars, callVars, MCVersion, SupportAdvancedCommandSet, SilentSlewMode,
                   MicrostepsPerRevolution, StepperClockFrequency, HighSpeedRatio,
                   LowSpeedGotoMargin, mountVars, xchg, codec>>

NextTwin == TwinPollStep

SpecTwin == Init /\ [][NextTwin]_vars

\* C14: after a successful status poll the status of the axis is determined
\* by the response alone: two drivers that differ in their status before
\* the poll and receive the same response end with the same status.
C14_PollAuthoritative == flags.op = "TwinPoll" => flags.after = flags.after2

\* C15: in every state, whether before the first poll, after a failed
\* exchange or in the middle of an operation, at most one of FullStop,
\* Slewing and SlewingTo is set for each axis.
C15_AtMostOnePhase == \A a \in Axes : PhaseFlags(AxesStatus[a]) <= 1

\* in the polling loop of SlewTo, after a failed exchange, the axis marked
\* Slewing and the other axis as constructed
C15_Witness ==
    /\ pc = "SlewTo_Poll" /\ failed
    /\ AxesStatus[frame.Axis].Slewing
    /\ \E b \in Axes : PhaseFlags(AxesStatus[b]) = 0

(***************************************************************************)
(* The wire codec on its own: one conversion of one input                  *)
(***************************************************************************)
MaxSmallNumber == 300

\* 24-bit numbers: every small one and some with two and three different bytes
CodecNumbers == (0 .. MaxSmallNumber) \cup {4660, 65536, 1193046, 8388608, 11259375, 16777215}

\* characters the HEX macro does not reject although they are no hex digits: ':' 'G' 'a'
NonHexChars == {58, 71, 97}

IsHexChar(c) == (c >= 48 /\ c <= 57) \/ (c >= 65 /\ c <= 70)

WithCharAt(str, i, c) == [str EXCEPT ![i] = c]

\* strings handed to BCDstr2long: well-formed ones, truncated and over-long ones,
\* and ones with a character that is no hex digit
BCDStrings ==
    LET good == {Long2BCDstr(n) : n \in {0, 1, 4660, 1193046, 11259375}}
    IN  good \cup {SubSeq(g, 1, k) : g \in good, k \in 0 .. 5}
             \cup {g \o <<48>> : g \in good}
             \cup {WithCharAt(g, i, c) : g \in good, i \in 1 .. 6, c \in NonHexChars}

\* strings handed to Highstr2long
HighStrings ==
    LET good == {HexByte(b) : b \in {0, 1, 16, 26, 255}}
    IN  good \cup {<<>>} \cup {<<g[1]>> : g \in good}
             \cup {g \o <<48>> : g \in good}
             \cup {WithCharAt(g, i, c) : g \in good, i \in 1 .. 2, c \in NonHexChars}

RoundTripStep ==
    /\ codec = NoCodec
    /\ \E N \in CodecNumbers :
         codec' = [op |-> "RoundTrip", Number |-> N, String |-> Long2BCDstr(N),
                   value |-> BCDstr2long(Long2BCDstr(N))]
    /\ UNCHANGED <<progVars, callVars, fixedVars>>

BCDDecodeStep ==
    /\ codec = NoCodec
    /\ \E str \in BCDStrings :
         codec' = [op |-> "BCDstr2long", Number |-> 0, String |-> str, value |-> BCDstr2long(str)]
    /\ UNCHANGED <<progVars, callVars, fixedVars>>

HighDecodeStep ==
    /\ codec = NoCodec
    /\ \E str \in HighStrings :
         codec' = [op |-> "Highstr2long", Number |-> 0, String |-> str, value |-> Highstr2long(str)]
    /\ UNCHANGED <<progVars, callVars, fixedVars>>

NextCodec == RoundTripStep \/ BCDDecodeStep \/ HighDecodeStep

SpecCodec == Init /\ [][NextCodec]_vars

\* the number whose three bytes are those of n in the opposite order
ReverseBytes(n) == (n % 256) * 65536 + ((n \div 256) % 256) * 256 + (n \div 65536)

\* C19 as stated: decoding the encoding of N directly does not give N back;
\* it gives N with its bytes reversed, which differs from N unless N reads
\* the same in both byte orders.
C19_RoundTripAsymmetric ==
    codec.op = "RoundTrip" /\ ReverseBytes(codec.Number) # codec.Number
        => codec.value # codec.Number

\* C19 (as the code behaves): for every 24-bit N, BCDstr2long(Long2BCDstr(N)) = N:
\* Long2BCDstr writes the low byte first and BCDstr2long reads the last
\* pair of digits as the high byte, so the two are inverse.
C19_RoundTripReproduces == codec.op = "RoundTrip" => codec.value = codec.Number

\* a number with three different bytes has been encoded and decoded
C19_Witness ==
    /\ codec.op = "RoundTrip"
    /\ codec.Number = 1193046
    /\ codec.String = <<53, 54, 51, 52, 49, 50>>
    /\ codec.value = 1193046

\* a string of the length the function expects, of hex digits only
WellFormed(op, str) ==
    /\ Len(str) = (IF op = "BCDstr2long" THEN 6 ELSE 2)
    /\ \A i \in DOMAIN str : IsHexChar(str[i])

\* the values the function returns for well-formed strings
DecodedValues(op) == IF op = "BCDstr2long" THEN 0 .. 16777215 ELSE 0 .. 255

\* C20: BCDstr2long and Highstr2long, given a string of the wrong length or
\* with a character that is no hex digit, return something that no
\* well-formed string decodes to.
C20_MalformedSignalsFailure ==
    codec.op \in {"BCDstr2long", "Highstr2long"} /\ ~WellFormed(codec.op, codec.String)
        => codec.value \notin DecodedValues(codec.op)

(***************************************************************************)
(* Every motion and polling operation, one call after the setup polls      *)
(***************************************************************************)
\* no rate, a low and a high one, and no offset, a short and a long one
MotionRates == {-(LOW_SPEED_MARGIN + 1), 0, SIDEREALRATE}
MotionOffsets == {-150, 0, 70000}

NextMotion ==
    \/ \E a \in Axes : Poll(a)
    \/ \E b \in BOOLEAN : SetSilentSlewMode(b)
    \/ \E a \in Axes : GetStatus(a)
    \/ \E a \in Axes : GetEncoder(a)
    \/ \E a \in Axes, e \in EncoderSettings : SetEncoder(a, e)
    \/ \E a \in Axes : InstantStop(a)
    \/ \E a \in Axes : SlowStop(a)
    \/ \E a \in Axes, r \in MotionRates, i \in BOOLEAN : Slew(a, r, i)
    \/ PFS_Poll
    \/ \E a \in Axes, o \in MotionOffsets : SlewTo(a, o, FALSE)
    \/ SlewTo_Poll
    \/ \E a \in Axes, d \in Destinations : SlewTo_Advanced(a, d, FALSE)

SpecMotion == Init /\ [][NextMotion]_vars

\* the calibration of the mount as InitMount leaves it; the four conversion
\* factors are functions of MicrostepsPerRevolution
Calibration ==
    <<MicrostepsPerRevolution, StepperClockFrequency, HighSpeedRatio, LowSpeedGotoMargin,
      MCVersion, MountCode, SupportAdvancedCommandSet>>

\* C18: no step of Slew, SlewTo, SlewTo_Advanced, SlowStop, InstantStop,
\* GetStatus, GetEncoder or SetEncoder changes MicrostepsPerRevolution,
\* StepperClockFrequency, HighSpeedRatio, LowSpeedGotoMargin, MCVersion,
\* MountCode or SupportAdvancedCommandSet (IsInMotion writes nothing at all).
C18_CalibrationFixed == [][Calibration' = Calibration]_vars

\* SetEncoder has written a new encoder value to an axis and the resolution
\* of that axis is the one the mount reported
C18_Witness ==
    /\ pc = "done"
    /\ frame.op = "SetEncoder"
    /\ ret = "true"
    /\ Len(sent) = 1
    /\ MicrostepsPerRevolution[frame.Axis] = MicrostepsSample
    /\ \E b \in Axes : AxesStatus[b] # NewAxisStatus

(***************************************************************************)
(* InitMount, exchange by exchange                                         *)
(***************************************************************************)
\* what a member the constructor does not initialise may hold
Indeterminate == {0, 4660}

\* the driver as its constructor leaves it
InitConstructed ==
    /\ AxesStatus = [a \in Axes |-> NewAxisStatus]
    /\ CurrentEncoders = [a \in Axes |-> 0]
    /\ SlewingSpeed = [a \in Axes |-> 0]
    /\ PolarisPositionEncoders = [a \in Axes |-> 0]
    /\ ZeroPositionEncoders = [a \in Axes |-> 0]
    /\ MountCode = 0
    /\ IsDCMotor = FALSE
    /\ SilentSlewMode = TRUE
    /\ \E g \in Indeterminate :
         /\ MCVersion = g
         /\ SupportAdvancedCommandSet = (g # 0)
         /\ LastSlewToTarget = [a \in Axes |-> g]
         /\ MicrostepsPerRevolution = [a \in Axes |-> g]
         /\ StepperClockFrequency = [a \in Axes |-> g]
         /\ HighSpeedRatio = [a \in Axes |-> g]
         /\ LowSpeedGotoMargin = [a \in Axes |-> g]
    /\ pc = "idle"
    /\ frame = NoFrame
    /\ sent = <<>>
    /\ polled = "none"
    /\ failed = FALSE
    /\ ret = "none"
    /\ xchg = NoExchange
    /\ codec = NoCodec
    /\ flags = NoFlags

\* InitMount's position: the axis of the next exchange, the constant the
\* mount reported as zero, and what each axis's status reply said
\* (resolution: the microsteps per revolution each axis reported)
InitFrame ==
    [op |-> "InitMount", Axis |-> AXIS1, zero |-> "none",
     reported |-> [a \in Axes |-> "none"], resolution |-> [a \in Axes |-> 0]]

\* _114GT
MountCode_114GT == 130
\* for 114GT mount
Microsteps_114GT == 2118424

\* IsMerlinMount
IsMerlinMount(code) == code >= 128 /\ code < 144

\* rRESOLUTION, rWORM_RESOLUTION
rRESOLUTION == <<48, 48, 48, 50>>
rWORM_RESOLUTION == <<48, 48, 48, 69>>

\* "=010600", "=032300", "=020482" (a 114GT), and "!2"
VersionReplies ==
    {<<61, 48, 49, 48, 54, 48, 48>>, <<61, 48, 51, 50, 51, 48, 48>>,
     <<61, 48, 50, 48, 52, 56, 50>>, <<33, 50>>}

\* a constant reported as zero, as a number, and refused
BCDReplies(n) == {<<61>> \o Long2BCDstr(0), <<61>> \o Long2BCDstr(n), <<33, 50>>}
HexReplies(n) == {<<61>> \o HexField(0, 8), <<61>> \o HexField(n, 8), <<33, 50>>}
RatioReplies(n) == {<<61>> \o HexByte(0), <<61>> \o HexByte(n), <<33, 50>>}

\* the mount answered, and every digit of its answer is 0
ReportsZero(x) ==
    x.ok /\ x.responseStr # <<>> /\ \A i \in DOMAIN x.responseStr : x.responseStr[i] = 48

\* MCVersion as GetMotorBoardVersion assembles it
BoardVersion(Response) ==
    LET tmpMCVersion == BCDstr2long(Response)
    IN  (tmpMCVersion % 256) * 65536 + ((tmpMCVersion \div 256) % 256) * 256
        + (tmpMCVersion \div 65536)

\* stol(&Response[1], 8, 16)
AdvancedValue(Response) == HexStr2long(SubSeq(Response, 2, Min(Len(Response), 9)), 0)

\* a second resolution, so that two mounts of a kind differ in what they report
MicrostepsSample2 == 1000000

\* tmpMicrostepsPerRevolution as read from the response
ReportedResolution(x) ==
    IF ~x.ok THEN 0
    ELSE IF SupportAdvancedCommandSet THEN AdvancedValue(x.responseStr)
    ELSE BCDstr2long(x.responseStr)

\* GetMicrostepsPerRevolution storing the fixed 114GT resolution as it is
GetMicrostepsPerRevolutionF_NoScaling(x) ==
    LET tmp == ReportedResolution(x)
    IN  [ok |-> x.ok /\ tmp # 0,
         value |-> IF MountCode = MountCode_114GT THEN Microsteps_114GT
                   ELSE IF IsMerlinMount(MountCode) THEN MulDiv(tmp, 655, 1000) ELSE tmp]

\* GetMicrostepsPerRevolution: whether it returns true, and what it then stores
GetMicrostepsPerRevolutionF(x) ==
    LET tmp == ReportedResolution(x)
        gt  == IF MountCode = MountCode_114GT THEN Microsteps_114GT ELSE tmp
    IN  [ok |-> x.ok /\ tmp # 0,
         value |-> IF IsMerlinMount(MountCode) THEN MulDiv(gt, 655, 1000) ELSE gt]

\* GetStepperClockFrequency storing whatever the mount reported
GetStepperClockFrequencyF_StoresZero(x) ==
    [ok |-> x.ok, value |-> BCDstr2long(x.responseStr)]

\* GetStepperClockFrequency
GetStepperClockFrequencyF(x) ==
    [ok |-> x.ok /\ BCDstr2long(x.responseStr) # 0, value |-> BCDstr2long(x.responseStr)]

\* GetHighSpeedRatio
GetHighSpeedRatioF(x) ==
    [ok |-> x.ok /\ Highstr2long(x.responseStr) # 0, value |-> Highstr2long(x.responseStr)]

ResolutionResults(Axis) ==
    IF SupportAdvancedCommandSet
    THEN Talk(Axis, Ord("X"), rRESOLUTION,
              HexReplies(MicrostepsSample) \cup HexReplies(MicrostepsSample2))
    ELSE Talk(Axis, Ord("a"), <<>>,
              BCDReplies(MicrostepsSample) \cup BCDReplies(MicrostepsSample2))

WormResults(Axis) ==
    IF SupportAdvancedCommandSet
    THEN Talk(Axis, Ord("X"), rWORM_RESOLUTION, HexReplies(MicrostepsSample))
    ELSE Talk(Axis, Ord("s"), <<>>, BCDReplies(MicrostepsSample))

\* return false
IM_Fail(fr) == pc' = "done" /\ ret' = "false" /\ frame' = fr

\* go on to the next exchange: the other axis, or the next query on AXIS1
IM_Goto(fr, next) ==
    /\ ret' = ret
    /\ IF fr.Axis = AXIS1
       THEN pc' = pc /\ frame' = [fr EXCEPT !.Axis = AXIS2]
       ELSE pc' = next /\ frame' = [fr EXCEPT !.Axis = AXIS1]

probeVars == <<xchg, codec, flags>>

\* InitMount up to the first exchange: CheckIfDCMotor, which talks to the
\* port directly: a colon echoed ("dc"), no answer ("stepper"), a port error
InitMount ==
    /\ pc = "idle"
    /\ \E motor \in {"dc", "stepper", "error"} :
         IF motor = "error"
         THEN IM_Fail(InitFrame) /\ UNCHANGED IsDCMotor
         ELSE /\ IsDCMotor' = (motor = "dc")
              /\ pc' = "IM_Version"
              /\ frame' = InitFrame
              /\ ret' = ret
    /\ UNCHANGED <<progVars, sent, polled, failed, calibVars, SilentSlewMode, MountCode,
                   PolarisPositionEncoders, ZeroPositionEncoders, probeVars>>

\* GetMotorBoardVersion(AXIS1) and the choice of the command set
IM_Version ==
    /\ pc = "IM_Version"
    /\ \E x \in Talk(AXIS1, Ord("e"), <<>>, VersionReplies) :
         /\ Becomes(Exchanged(Cur, x))
         /\ IF ~x.ok
            THEN IM_Fail(frame) /\ UNCHANGED <<MCVersion, SupportAdvancedCommandSet, MountCode>>
            ELSE /\ MCVersion' = BoardVersion(x.responseStr)
                 /\ SupportAdvancedCommandSet' = (MCVersion' >= AdvancedFirmware)
                 /\ MountCode' = MCVersion' % 256
                 /\ pc' = "IM_Resolution"
                 /\ UNCHANGED <<frame, ret>>
    /\ UNCHANGED <<MicrostepsPerRevolution, StepperClockFrequency, HighSpeedRatio,
                   LowSpeedGotoMargin, SilentSlewMode, IsDCMotor, PolarisPositionEncoders,
                   ZeroPositionEncoders, probeVars>>

\* GetMicrostepsPerRevolution(frame.Axis)
IM_Resolution ==
    /\ pc = "IM_Resolution"
    /\ \E x \in ResolutionResults(frame.Axis) :
         LET r  == GetMicrostepsPerRevolutionF(x)
             fr == [frame EXCEPT !.zero = IF ReportsZero(x) THEN "resolution" ELSE @,
                                 !.resolution[frame.Axis] = ReportedResolution(x)]
         IN  /\ Becomes(Exchanged(Cur, x))
             /\ IF ~r.ok
                THEN IM_Fail(fr) /\ UNCHANGED MicrostepsPerRevolution
                ELSE /\ MicrostepsPerRevolution' =
                            [MicrostepsPerRevolution EXCEPT ![frame.Axis] = r.value]
                     /\ IM_Goto(fr, "IM_Clock")
    /\ UNCHANGED <<MCVersion, SupportAdvancedCommandSet, StepperClockFrequency, HighSpeedRatio,
                   LowSpeedGotoMargin, SilentSlewMode, mountVars, probeVars>>

\* GetStepperClockFrequency(frame.Axis)
IM_Clock ==
    /\ pc = "IM_Clock"
    /\ \E x \in Talk(frame.Axis, Ord("b"), <<>>, BCDReplies(ClockSample)) :
         LET r  == GetStepperClockFrequencyF(x)
             fr == IF ReportsZero(x) THEN [frame EXCEPT !.zero = "clock"] ELSE frame
         IN  /\ Becomes(Exchanged(Cur, x))
             /\ IF ~r.ok
                THEN IM_Fail(fr) /\ UNCHANGED StepperClockFrequency
                ELSE /\ StepperClockFrequency' =
                            [StepperClockFrequency EXCEPT ![frame.Axis] = r.value]
                     /\ IM_Goto(fr, "IM_Ratio")
    /\ UNCHANGED <<MCVersion, SupportAdvancedCommandSet, MicrostepsPerRevolution, HighSpeedRatio,
                   LowSpeedGotoMargin, SilentSlewMode, mountVars, probeVars>>

\* GetHighSpeedRatio(frame.Axis); after AXIS2 the worm queries unless IsDCMotor
IM_Ratio ==
    /\ pc = "IM_Ratio"
    /\ \E x \in Talk(frame.Axis, Ord("g"), <<>>, RatioReplies(RatioSample)) :
         LET r  == GetHighSpeedRatioF(x)
             fr == IF ReportsZero(x) THEN [frame EXCEPT !.zero = "ratio"] ELSE frame
         IN  /\ Becomes(Exchanged(Cur, x))
             /\ IF ~r.ok
                THEN IM_Fail(fr) /\ UNCHANGED HighSpeedRatio
                ELSE /\ HighSpeedRatio' = [HighSpeedRatio EXCEPT ![frame.Axis] = r.value]
                     /\ IM_Goto(fr, IF IsDCMotor THEN "IM_Status" ELSE "IM_Worm")
    /\ UNCHANGED <<MCVersion, SupportAdvancedCommandSet, MicrostepsPerRevolution,
                   StepperClockFrequency, LowSpeedGotoMargin, SilentSlewMode, mountVars,
                   probeVars>>

\* GetMicrostepsPerWormRevolution(frame.Axis): InitMount ignores what it
\* returns, and nothing reads the member it writes
IM_Worm ==
    /\ pc = "IM_Worm"
    /\ \E x \in WormResults(frame.Axis) :
         /\ Becomes(Exchanged(Cur, x))
         /\ IM_Goto(frame, "IM_Status")
    /\ UNCHANGED <<calibVars, SilentSlewMode, mountVars, probeVars>>

\* what the status reply said of the axis's initialisation
Reported(x) ==
    IF ~x.ok \/ Len(x.responseStr) < 3 THEN "none"
    ELSE IF x.responseStr[3] % 2 = 0 THEN "NotInitialized" ELSE "Initialized"

\* the rest of InitMount after GetStatus(AXIS2), m the driver's state then:
\* nothing to initialise
IM_AlreadyInitialized(m) ==
    ~(m.AxesStatus[AXIS1].NotInitialized /\ m.AxesStatus[AXIS2].NotInitialized)

\* GetStatus(frame.Axis), its result ignored; after AXIS2 either on to the
\* encoders, or the reference positions of an initialised mount and return true
IM_Status ==
    /\ pc = "IM_Status"
    /\ \E x \in StatusResults(frame.Axis, StatusReplies) :
         \E oob \in OobChoices(x) :
           \E e \in EncoderChoices(Cur, frame.Axis, x, oob) :
             LET m  == GetStatusF(Cur, frame.Axis, x, e, oob)
                 fr == [frame EXCEPT !.reported[frame.Axis] = Reported(x)]
             IN  /\ Becomes(m)
                 /\ IF frame.Axis = AXIS2 /\ IM_AlreadyInitialized(m)
                    THEN /\ PolarisPositionEncoders' =
                                [a \in Axes |-> ReferencePosition(SupportAdvancedCommandSet)]
                         /\ ZeroPositionEncoders' = PolarisPositionEncoders'
                         /\ LowSpeedGotoMargin' =
                                [a \in Axes |-> GotoMarginOf(MicrostepsPerRevolution[a])]
                         /\ pc' = "done"
                         /\ ret' = "true"
                         /\ frame' = fr
                    ELSE /\ IM_Goto(fr, "IM_Encoder")
                         /\ UNCHANGED <<PolarisPositionEncoders, ZeroPositionEncoders,
                                        LowSpeedGotoMargin>>
    /\ UNCHANGED <<MCVersion, SupportAdvancedCommandSet, MicrostepsPerRevolution,
                   StepperClockFrequency, HighSpeedRatio, SilentSlewMode, MountCode, IsDCMotor,
                   probeVars>>

\* GetEncoder(frame.Axis); after AXIS2 the reference positions
IM_Encoder ==
    /\ pc = "IM_Encoder"
    /\ \E x \in EncoderResults(frame.Axis) :
         LET m == GetEncoderF(Cur, frame.Axis, x)
         IN  /\ Becomes(m)
             /\ IF ~x.ok
                THEN IM_Fail(frame)
                     /\ UNCHANGED <<PolarisPositionEncoders, ZeroPositionEncoders>>
                ELSE /\ IM_Goto(frame, "IM_InitializeMC")
                     /\ IF frame.Axis = AXIS2
                        THEN /\ PolarisPositionEncoders' = m.CurrentEncoders
                             /\ ZeroPositionEncoders' = m.CurrentEncoders
                        ELSE UNCHANGED <<PolarisPositionEncoders, ZeroPositionEncoders>>
    /\ UNCHANGED <<calibVars, SilentSlewMode, MountCode, IsDCMotor, probeVars>>

\* InitializeMC, one axis at a time; after AXIS2 the goto margins and return true
IM_InitializeMC ==
    /\ pc = "IM_InitializeMC"
    /\ \E x \in Acks(frame.Axis, Ord("F"), <<>>) :
         /\ Becomes(Exchanged(Cur, x))
         /\ IF ~x.ok
            THEN IM_Fail(frame) /\ UNCHANGED LowSpeedGotoMargin
            ELSE IF frame.Axis = AXIS1
            THEN IM_Goto(frame, "IM_InitializeMC") /\ UNCHANGED LowSpeedGotoMargin
            ELSE /\ LowSpeedGotoMargin' =
                        [a \in Axes |-> GotoMarginOf(MicrostepsPerRevolution[a])]
                 /\ pc' = "done"
                 /\ ret' = "true"
                 /\ frame' = frame
    /\ UNCHANGED <<MCVersion, SupportAdvancedCommandSet, MicrostepsPerRevolution,
                   StepperClockFrequency, HighSpeedRatio, SilentSlewMode, mountVars, probeVars>>

NextInit ==
    \/ InitMount
    \/ IM_Version
    \/ IM_Resolution
    \/ IM_Clock
    \/ IM_Ratio
    \/ IM_Worm
    \/ IM_Status
    \/ IM_Encoder
    \/ IM_InitializeMC

SpecInit == InitConstructed /\ [][NextInit]_vars

\* the frames of the exchanges that follow the calibration queries
LaterFrames(frames) == {i \in DOMAIN frames : frames[i][2] \in {Ord("f"), Ord("j"), Ord("F")}
                                             \/ (frames[i][2] = Ord("X") /\ Len(frames[i]) >= 7
                                                 /\ SubSeq(frames[i], 4, 7) = rENCODER)}

\* C16: in the step in which the mount reports zero for the microsteps per
\* revolution, the stepper clock frequency or the high-speed ratio of an
\* axis, InitMount returns false, no calibration member changes, and no
\* status poll, encoder read or initialize command has been or will be sent
\* (InitMount has returned).
C16_ZeroAbortsInit ==
    [][pc # "done" /\ frame'.op = "InitMount" /\ frame'.zero # "none"
          => /\ pc' = "done"
             /\ ret' = "false"
             /\ MicrostepsPerRevolution' = MicrostepsPerRevolution
             /\ StepperClockFrequency' = StepperClockFrequency
             /\ HighSpeedRatio' = HighSpeedRatio
             /\ LaterFrames(sent') = {}]_vars

\* the mount has reported a zero high-speed ratio for AXIS2, after good
\* values for everything before it
C16_Witness ==
    /\ pc = "done"
    /\ frame.op = "InitMount"
    /\ frame.zero = "ratio"
    /\ frame.Axis = AXIS2
    /\ ret = "false"
    /\ HighSpeedRatio[AXIS1] = RatioSample
    /\ Len(sent) = 7

\* the initialize commands among the frames written
InitializeFrames(frames) == {i \in DOMAIN frames : frames[i][2] = Ord("F")}

\* C17: when InitMount has returned true: if both axes reported
\* NotInitialized, both encoders were read, the Polaris and Zero positions
\* of each axis are its encoder reading, and 'F' went to both axes;
\* otherwise no 'F' was sent and both reference positions are 0 (advanced
\* command set) or 0x800000 (legacy).
C17_InitOutcome ==
    pc = "done" /\ frame.op = "InitMount" /\ ret = "true" =>
        IF \A a \in Axes : frame.reported[a] = "NotInitialized"
        THEN /\ \A a \in Axes : /\ PolarisPositionEncoders[a] = CurrentEncoders[a]
                                /\ ZeroPositionEncoders[a] = CurrentEncoders[a]
             /\ Cardinality(InitializeFrames(sent)) = 2
             /\ Cardinality(LaterFrames(sent)) = 6
        ELSE /\ InitializeFrames(sent) = {}
             /\ \A a \in Axes :
                  /\ PolarisPositionEncoders[a] = ReferencePosition(SupportAdvancedCommandSet)
                  /\ ZeroPositionEncoders[a] = ReferencePosition(SupportAdvancedCommandSet)

\* GetMicrostepsPerRevolution has returned true in this step
C21_ResolutionStored ==
    /\ pc = "IM_Resolution"
    /\ pc' # "done"
    /\ MountCode = MountCode_114GT

\* C21 as stated: on a 114GT (mount code 0x82) the MicrostepsPerRevolution
\* that GetMicrostepsPerRevolution stores is 0x205318.
C21_FixedResolution ==
    [][C21_ResolutionStored
          => MicrostepsPerRevolution'[frame.Axis] = Microsteps_114GT]_vars

\* (long)(0x205318 * 0.655)
Microsteps_114GT_Scaled == 1387567

\* C21 (as the code behaves): on a 114GT, whatever non-zero value the mount
\* reports, GetMicrostepsPerRevolution stores (long)(0x205318 * 0.655):
\* 0x82 lies in the Merlin range, so the fixed value is scaled as well.
\* When the mount reports zero nothing is stored.
C21_FixedResolutionScaled ==
    [][pc = "IM_Resolution" /\ MountCode = MountCode_114GT
          => IF pc' # "done"
             THEN /\ frame'.resolution[frame.Axis] # 0
                  /\ MicrostepsPerRevolution'[frame.Axis] = Microsteps_114GT_Scaled
             ELSE MicrostepsPerRevolution' = MicrostepsPerRevolution]_vars

\* a 114GT whose axes reported different resolutions has both stored
C21_Witness ==
    /\ pc = "IM_Clock"
    /\ MountCode = MountCode_114GT
    /\ frame.resolution[AXIS1] = MicrostepsSample
    /\ frame.resolution[AXIS2] = MicrostepsSample2
    /\ \A a \in Axes : MicrostepsPerRevolution[a] = Microsteps_114GT_Scaled

(***************************************************************************)
(* PrepareForSlewing on its own                                            *)
(***************************************************************************)
NextPrepare ==
    \/ \E a \in Axes : Poll(a)
    \/ \E a \in Axes, r \in Rates : PrepareForSlewing(a, ClampSpeed(r))
    \/ PFS_Poll

SpecPrepare == Init /\ [][NextPrepare]_vars

\* a call of PrepareForSlewing reaches its return or its polling loop
C22_PrepareStep == pc = "idle" /\ frame'.op = "PrepareForSlewing"

\* the status as refreshed shows the axis running and in need of a stop
C22_StopNeeded(st, Speed) ==
    /\ ~st.FullStop
    /\ \/ st.SlewingTo
       \/ st.HighSpeed
       \/ Abs(Speed) >= LOW_SPEED_MARGIN
       \/ st.SlewingForward # (Speed > 0)

\* C22: PrepareForSlewing sends a slow stop exactly when its status poll
\* succeeded and shows the axis running and in slew-to mode, or at high
\* speed, or the requested speed is LOW_SPEED_MARGIN or more, or its
\* direction is not SlewingForward; when the poll shows the axis running and
\* none of these holds, it returns with neither a stop nor a motion-mode
\* command sent.
C22_StopIffNeeded ==
    [][C22_PrepareStep =>
          LET a      == frame'.Axis
              st     == AxesStatus'[a]
              polledOk == polled' # "none"
          IN  /\ (FramesOf(sent', "K") # {}) = (polledOk /\ C22_StopNeeded(st, frame'.Speed))
              /\ polledOk /\ ~st.FullStop /\ ~C22_StopNeeded(st, frame'.Speed)
                    => /\ pc' = "done"
                       /\ FramesOf(sent', "K") = {}
                       /\ FramesOf(sent', "G") = {}]_vars

\* the axis was polled running in the requested direction at low speed and
\* PrepareForSlewing has returned after its status query alone
C22_Witness ==
    /\ pc = "done"
    /\ frame.op = "PrepareForSlewing"
    /\ polled = "running"
    /\ AxesStatus[frame.Axis].Slewing
    /\ ~AxesStatus[frame.Axis].HighSpeed
    /\ AxesStatus[frame.Axis].SlewingForward
    /\ frame.Speed = SIDEREALRATE
    /\ Len(sent) = 1

(***************************************************************************)
(* The stop-and-poll loops without a limit on their rounds                 *)
(***************************************************************************)
\* one round of either polling loop after the rounds whose frames `sent`
\* keeps: the same round, its status and encoder frames not recorded
PollOn ==
    /\ pc \in {"PFS_Poll", "SlewTo_Poll"}
    /\ StatusFrames(sent) > MaxPolls
    /\ \E x \in StatusResults(frame.Axis, MotionStatusReplies) :
       \E oob \in OobChoices(x) :
       \E e \in EncoderChoices(Cur, frame.Axis, x, oob) :
         LET m == [GetStatusF(Cur, frame.Axis, x, e, oob) EXCEPT !.sent = sent]
         IN  IF PollLoopExit(m.AxesStatus[frame.Axis])
             THEN IF frame.op = "SlewTo" THEN SlewToFinish(m, frame)
                  ELSE PFS_Finish(m, frame)
             ELSE /\ Becomes(m)
                  /\ UNCHANGED <<pc, frame, ret>>
    /\ UNCHANGED configVars

LoopRates == {-(LOW_SPEED_MARGIN + 1), SIDEREALRATE}
LoopOffsets == {-150, 70000}

NextLoop ==
    \/ \E a \in Axes : Poll(a)
    \/ \E a \in Axes, r \in LoopRates : PrepareForSlewing(a, r)
    \/ PFS_Poll
    \/ \E a \in Axes, o \in LoopOffsets : SlewTo(a, o, FALSE)
    \/ SlewTo_Poll
    \/ PollOn

\* a round of a polling loop: the thread sleeps 100 ms and polls again
LoopRound == PFS_Poll \/ SlewTo_Poll \/ PollOn

InLoop == pc \in {"PFS_Poll", "SlewTo_Poll"}

\* The thread inside a loop keeps running: WF_vars(LoopRound), written with
\* what a round is under NextLoop. A round is enabled exactly in the states
\* of InLoop, and every step from such a state is a round.
LoopFair == []<>(~InLoop) \/ []<><<InLoop>>_vars

SpecLoop == Init /\ [][NextLoop]_vars /\ LoopFair

\* the polls eventually succeed and report the axis stopped: while the
\* thread is in a loop, rounds whose poll reads a stopped axis keep coming
StopReported == []<>(~InLoop) \/ []<><<InLoop /\ polled' = "FullStop">>_vars

\* C23: a round of the stop-and-poll loop of PrepareForSlewing or SlewTo
\* leaves the loop exactly when its poll succeeded and reported the axis
\* stopped, after any number of rounds: a failed poll or one that reports
\* the axis running stays in the loop. If the polls eventually succeed and
\* report the axis stopped, the operation returns.
C23_LoopExitsOnFullStopOnly ==
    /\ [](InLoop => polled # "FullStop")
    /\ [][InLoop => /\ pc' \in {pc, "done"}
                    /\ (pc' = "done") = (polled' = "FullStop")]_vars
    /\ StopReported => (InLoop ~> pc = "done")

\* SlewTo has returned after more rounds of its loop than `sent` records
C23_Witness ==
    /\ pc = "done"
    /\ frame.op = "SlewTo"
    /\ polled = "FullStop"
    /\ failed
    /\ StatusFrames(sent) = MaxPolls + 1
    /\ FramesOf(sent, "K") # {}
    /\ FramesOf(sent, "J") # {}
    /\ AxesStatus[frame.Axis].SlewingTo

(***************************************************************************)
(* The commands of a legacy SlewTo                                         *)
(***************************************************************************)
\* the command characters of the frames sent, in the order sent
CommandsOf(frames) == [i \in DOMAIN frames |-> frames[i][2]]

\* the last n elements of a sequence of at least n elements
Tail4(q) == SubSeq(q, Len(q) - 3, Len(q))

\* SlewTo with a non-zero offset has returned and its first GetStatus succeeded
C24_SlewToStarted ==
    pc = "done" /\ frame.op = "SlewTo" /\ frame.Requested # 0 /\ polled # "none"

\* C24: a legacy SlewTo with a non-zero offset whose status refresh
\* succeeded sends 'G', 'H', 'M' and 'J', once each and in this order, as
\* its last four commands, and then marks the axis SlewingTo in the
\* requested direction and with its high-speed decision; as long as it has
\* not returned, none of the four has been sent.
C24_GotoSequence ==
    /\ C24_SlewToStarted =>
         /\ Len(sent) >= 4
         /\ Tail4(CommandsOf(sent)) = <<Ord("G"), Ord("H"), Ord("M"), Ord("J")>>
         /\ \A c \in {"G", "H", "M", "J"} : Cardinality(FramesOf(sent, c)) = 1
         /\ AxesStatus[frame.Axis] = SetSlewingTo(AxesStatus[frame.Axis],
                                                  frame.Forward, frame.HighSpeed)
         /\ AxesStatus[frame.Axis].SlewingTo
         /\ AxesStatus[frame.Axis].SlewingForward = frame.Forward
         /\ AxesStatus[frame.Axis].HighSpeed = frame.HighSpeed
    /\ pc = "SlewTo_Poll" =>
         \A c \in {"G", "H", "M", "J"} : FramesOf(sent, c) = {}

\* a high-speed SlewTo backwards that had to stop the axis first
C24_Witness ==
    /\ C24_SlewToStarted
    /\ frame.HighSpeed
    /\ ~frame.Forward
    /\ FramesOf(sent, "K") # {}
    /\ FramesOf(sent, "M") # {}
    /\ ~failed

(***************************************************************************)
(* The clock ticks of a legacy Slew, over calibrations                     *)
(***************************************************************************)
\* a stepper clock of 1.947 MHz, as a mount may answer ":b"
ClockSampleFast == 1947124

ClockSamples == {ClockSample, ClockSampleFast, ClockSampleFast + 1}
ResolutionSamples == {MicrostepsSample, MicrostepsSample2}

\* the driver after an InitMount that read calibration values of the samples
InitCalibrated ==
    /\ AxesStatus = [a \in Axes |-> NewAxisStatus]
    /\ CurrentEncoders = [a \in Axes |-> 0]
    /\ LastSlewToTarget = [a \in Axes |-> 0]
    /\ SlewingSpeed = [a \in Axes |-> 0]
    /\ MCVersion \in MCVersionSamples
    /\ SupportAdvancedCommandSet = (MCVersion >= AdvancedFirmware)
    /\ SilentSlewMode = TRUE
    /\ \E mpr \in ResolutionSamples :
         /\ MicrostepsPerRevolution = [a \in Axes |-> mpr]
         /\ LowSpeedGotoMargin = [a \in Axes |-> GotoMarginOf(mpr)]
    /\ \E clock \in ClockSamples : StepperClockFrequency = [a \in Axes |-> clock]
    /\ HighSpeedRatio = [a \in Axes |-> RatioSample]
    /\ pc = "idle"
    /\ frame = NoFrame
    /\ sent = <<>>
    /\ polled = "none"
    /\ failed = FALSE
    /\ ret = "none"
    /\ MountCode = MCVersion % 256
    /\ IsDCMotor = FALSE
    /\ PolarisPositionEncoders = [a \in Axes |-> ReferencePosition(MCVersion >= AdvancedFirmware)]
    /\ ZeroPositionEncoders = [a \in Axes |-> ReferencePosition(MCVersion >= AdvancedFirmware)]
    /\ xchg = NoExchange
    /\ codec = NoCodec
    /\ flags = NoFlags

\* a hundredth of the sidereal rate, the sidereal rate, and a rate past the margin
TickRates == {1, -SIDEREALRATE, LOW_SPEED_MARGIN + 1}

NextTicks ==
    \/ \E a \in Axes, r \in TickRates, i \in BOOLEAN : Slew(a, r, i)
    \/ PFS_Poll

SpecTicks == InitCalibrated /\ [][NextTicks]_vars

\* the number a frame carries after its command and axis characters
PayloadValue(fr) == BCDstr2long(SubSeq(fr, 4, Len(fr) - 1))

\* C25: every 'I' command of a legacy Slew carries a tick count of at least 6.
C25_TicksAtLeastSix ==
    (frame.op = "Slew" /\ ~SupportAdvancedCommandSet) =>
        \A i \in FramesOf(sent, "I") : PayloadValue(sent[i]) >= 6

(***************************************************************************)
(* Status polls, one after another                                         *)
(***************************************************************************)
NextPolling ==
    \/ \E a \in Axes : GetStatus(a)
    \/ Return

SpecPolling == Init /\ [][NextPolling]_vars

\* GetStatus is called and returns
C26_PollStep == pc = "idle" /\ pc' = "done" /\ frame'.op = "GetStatus"

\* the frame of the encoder query of an axis
EncoderFrame(Axis) ==
    IF SupportAdvancedCommandSet THEN FormatCommand(Axis, Ord("X"), rENCODER)
    ELSE BareFrame("j", Axis)

\* C26: a status poll sends the status query and, if and only if the reply
\* was read and reports the axis stopped while the status held before the
\* poll had SlewingTo set, the encoder query of the same axis after it: a
\* poll that fails, that reports the axis running, or that finds it stopped
\* with Slewing or FullStop held before sends the status query alone.
C26_EncoderAfterGoto ==
    [][C26_PollStep =>
          LET a == frame'.Axis
              completed == polled' = "FullStop" /\ AxesStatus[a].SlewingTo
          IN  sent' = IF completed THEN <<BareFrame("f", a), EncoderFrame(a)>>
                      ELSE <<BareFrame("f", a)>>]_vars

\* a poll has found a slew-to complete and has read the encoder
C26_Witness ==
    /\ pc = "done" /\ frame.op = "GetStatus" /\ ret = "true"
    /\ polled = "FullStop"
    /\ sent = <<BareFrame("f", frame.Axis), EncoderFrame(frame.Axis)>>
    /\ ~failed

(***************************************************************************)
(* The byte of the status reply that holds the running bit                 *)
(***************************************************************************)
\* bit 0 of Response[i] of the decoded reply is set
C27_Bit0(i) == ByteAt(flags.Response, i, flags.oob) % 2 # 0

\* C27 as stated: bit 0 of status byte 0 set decodes as not stopped (Slewing
\* or SlewingTo) and bit 0 of byte 0 clear decodes as FullStop.
C27_PhaseFromByte0 ==
    flags.op = "GetStatus" =>
        /\ C27_Bit0(0) => /\ ~flags.after.FullStop
                          /\ flags.after.Slewing \/ flags.after.SlewingTo
        /\ ~C27_Bit0(0) => flags.after.FullStop

\* C27: the status decode takes the running/stopped phase from bit 0 of
\* status byte 1: set decodes as not stopped, clear as FullStop with neither
\* Slewing nor SlewingTo. Bit 0 of byte 0 tells, for a running axis, Slewing
\* (set) from SlewingTo (clear).
C27_PhaseFromByte1 ==
    flags.op = "GetStatus" =>
        /\ C27_Bit0(1) => /\ ~flags.after.FullStop
                          /\ flags.after.Slewing = C27_Bit0(0)
                          /\ flags.after.SlewingTo = ~C27_Bit0(0)
        /\ ~C27_Bit0(1) => /\ flags.after.FullStop
                           /\ ~flags.after.Slewing /\ ~flags.after.SlewingTo

\* a complete reply with bit 0 of byte 0 set and bit 0 of byte 1 clear,
\* decoded as FullStop over flags that had Slewing set
C27_Witness ==
    /\ flags.op = "GetStatus"
    /\ Len(flags.Response) = 3
    /\ C27_Bit0(0) /\ ~C27_Bit0(1)
    /\ flags.before.Slewing /\ ~flags.before.FullStop
    /\ flags.after.FullStop /\ ~flags.after.Slewing

(***************************************************************************)
(* Slew on the advanced command set                                        *)
(***************************************************************************)
\* Slew is called on a mount with the advanced command set, and returns
C28_AdvancedSlewStep ==
    pc = "idle" /\ pc' = "done" /\ frame'.op = "Slew" /\ SupportAdvancedCommandSet

\* C28: on the advanced command set Slew makes exactly one exchange, the
\* 'X' command that sets the speed, whatever the rate and the status of the
\* axis: no status poll, no stop, no polling loop and no motion mode.
C28_AdvancedSlewOneExchange ==
    /\ [][C28_AdvancedSlewStep =>
            /\ Len(sent') = 1
            /\ sent'[1] = FormatCommand(frame'.Axis, Ord("X"),
                                        AdvSpeedPayload(frame'.Axis, frame'.Speed))
            /\ \A c \in {"f", "K", "G", "I", "J"} : FramesOf(sent', c) = {}]_vars
    /\ [](SupportAdvancedCommandSet => pc # "PFS_Poll")

\* a backward Slew on the advanced set has returned after its one exchange,
\* the other axis last polled running in slew-to
C28_Witness ==
    /\ pc = "done" /\ frame.op = "Slew" /\ SupportAdvancedCommandSet
    /\ frame.Speed = -SIDEREALRATE
    /\ Len(sent) = 1
    /\ AxesStatus[frame.Axis].Slewing /\ ~AxesStatus[frame.Axis].SlewingForward
    /\ \E b \in Axes \ {frame.Axis} : AxesStatus[b].SlewingTo

(***************************************************************************)
(* SlewTo and Slew when the status refresh fails                           *)
(***************************************************************************)
\* a legacy SlewTo with a non-zero offset returns, its GetStatus having failed
C29_RefreshFailedStep ==
    /\ pc = "idle" /\ pc' = "done"
    /\ frame'.op = "SlewTo" /\ frame'.Requested # 0
    /\ polled' = "none"

\* C29: when the GetStatus at the start of a legacy SlewTo with a non-zero
\* offset fails, SlewTo has sent the status query and nothing else (no 'K',
\* 'G', 'H', 'M' or 'J'), the status of every axis, the encoder values and
\* the slewing speeds are as before, and LastSlewToTarget of the axis is
\* the encoder value plus the offset.
C29_FailedRefreshAborts ==
    [][C29_RefreshFailedStep =>
          LET a == frame'.Axis
          IN  /\ failed'
              /\ sent' = <<BareFrame("f", a)>>
              /\ AxesStatus' = AxesStatus
              /\ CurrentEncoders' = CurrentEncoders
              /\ SlewingSpeed' = SlewingSpeed
              /\ LastSlewToTarget' = [LastSlewToTarget EXCEPT
                                         ![a] = CurrentEncoders[a] + frame'.Requested]]_vars

\* SlewTo backwards has returned after a failed refresh, the axis still
\* marked as last polled: running in slew-to, forward
C29_Witness ==
    /\ pc = "done" /\ frame.op = "SlewTo" /\ frame.Requested = -150
    /\ polled = "none" /\ failed
    /\ sent = <<BareFrame("f", frame.Axis)>>
    /\ AxesStatus[frame.Axis].SlewingTo /\ AxesStatus[frame.Axis].SlewingForward
    /\ LastSlewToTarget[frame.Axis] = CurrentEncoders[frame.Axis] - 150

\* a legacy Slew at a rate that is not near zero returns, the GetStatus of
\* its PrepareForSlewing having failed
C30_RefreshFailedStep ==
    /\ pc = "idle" /\ pc' = "done"
    /\ frame'.op = "Slew" /\ ~SupportAdvancedCommandSet /\ ~NearZero(frame'.Speed)
    /\ polled' = "none"

\* C30: when the GetStatus inside PrepareForSlewing fails, the legacy Slew
\* has sent the status query, then 'I' and 'J', and neither 'G' nor 'K',
\* and the axis is marked Slewing, with the rate recorded.
C30_SlewsAfterFailedRefresh ==
    [][C30_RefreshFailedStep =>
          LET a == frame'.Axis
          IN  /\ failed'
              /\ CommandsOf(sent') = <<Ord("f"), Ord("I"), Ord("J")>>
              /\ AxesStatus'[a].Slewing
              /\ ~AxesStatus'[a].FullStop /\ ~AxesStatus'[a].SlewingTo
              /\ SlewingSpeed'[a] = frame'.Speed]_vars

\* a fast Slew has returned after a failed refresh, 'I' and 'J' acknowledged
C30_Witness ==
    /\ pc = "done" /\ frame.op = "Slew" /\ ~SupportAdvancedCommandSet
    /\ frame.Speed = LOW_SPEED_MARGIN + 1
    /\ polled = "none" /\ failed
    /\ CommandsOf(sent) = <<Ord("f"), Ord("I"), Ord("J")>>
    /\ AxesStatus[frame.Axis].Slewing
    /\ SlewingSpeed[frame.Axis] = LOW_SPEED_MARGIN + 1

(***************************************************************************)
(* The two speed-mode decisions of a legacy Slew                           *)
(***************************************************************************)
\* lines 765-769 for the rate divided by den
C31_Ticks(Axis, Speed, den) ==
    LET raw == RadiansPerSecondToClocksTicksPerMicrostep(Axis, Abs(Speed), den)
        adj == IF MCVersion = QuirkVersionA \/ MCVersion = QuirkVersionB THEN raw - 3 ELSE raw
    IN  IF adj < 6 THEN 6 ELSE adj

\* a 'G' command of this call selected high-speed slew
C31_ModeHigh == \E g \in FramesOf(sent, "G") : sent[g][4] = Ord("3")

\* C31: the tick count a legacy Slew writes is that of the rate divided by
\* HighSpeedRatio exactly when the 'G' command of the same call selected
\* high-speed slew ('3'), and that of the rate itself otherwise.
C31_SpeedModesAgree ==
    (pc = "done" /\ frame.op = "Slew" /\ ~SupportAdvancedCommandSet) =>
        \A i \in FramesOf(sent, "I") :
            SubSeq(sent[i], 4, Len(sent[i]) - 1) =
                Long2BCDstr(C31_Ticks(frame.Axis, frame.Speed,
                                      IF C31_ModeHigh THEN HighSpeedRatio[frame.Axis] ELSE 1))

(***************************************************************************)
(* A status poll whose exchange fails                                      *)
(***************************************************************************)
\* GetStatus returns, its exchange having failed
C32_FailedPollStep == C26_PollStep /\ polled' = "none"

\* C32: a GetStatus whose exchange fails, by an error reply or after the
\* last retry, returns false, has sent the status query alone, and leaves
\* the status flags and the encoder value of every axis as they were; a
\* GetStatus returns false in no other case.
C32_FailedPollChangesNothing ==
    /\ [][C32_FailedPollStep =>
            /\ ret' = "false"
            /\ failed'
            /\ sent' = <<BareFrame("f", frame'.Axis)>>
            /\ AxesStatus' = AxesStatus
            /\ CurrentEncoders' = CurrentEncoders]_vars
    /\ [][C26_PollStep /\ ret' = "false" => polled' = "none"]_vars

\* a poll of an axis last seen slewing backwards at high speed has failed
C32_Witness ==
    /\ pc = "done" /\ frame.op = "GetStatus" /\ ret = "false"
    /\ polled = "none" /\ failed
    /\ sent = <<BareFrame("f", frame.Axis)>>
    /\ AxesStatus[frame.Axis].Slewing /\ AxesStatus[frame.Axis].HighSpeed
    /\ ~AxesStatus[frame.Axis].SlewingForward /\ ~AxesStatus[frame.Axis].FullStop

(***************************************************************************)
(* The per-axis operations, each on a driver with both axes in use         *)
(***************************************************************************)
\* the encoder value an answered GetEncoder stores
AnsweredEncoder(Axis) ==
    LET x == CHOOSE r \in EncoderResults(Axis) : r.ok
    IN  GetEncoderValue(0, SupportAdvancedCommandSet, x)

\* the status a Slew at a positive rate below the margin leaves: forward on
\* the advanced set, and on the legacy set the outer Forward of line 710
UsedStatus == SetSlewing(NewAxisStatus, SupportAdvancedCommandSet, FALSE)

\* The driver as constructed and calibrated, or with both axes used before:
\* the encoder read, a SlewTo over 70000 microsteps made and then a Slew at
\* the sidereal rate.
InitAxes ==
    /\ MCVersion \in MCVersionSamples
    /\ SupportAdvancedCommandSet = (MCVersion >= AdvancedFirmware)
    /\ \E used \in BOOLEAN :
         /\ AxesStatus = [a \in Axes |-> IF used THEN UsedStatus ELSE NewAxisStatus]
         /\ CurrentEncoders = [a \in Axes |-> IF used THEN AnsweredEncoder(a) ELSE 0]
         /\ LastSlewToTarget = [a \in Axes |-> IF used THEN AnsweredEncoder(a) + 70000 ELSE 0]
         /\ SlewingSpeed = [a \in Axes |-> IF used THEN SIDEREALRATE ELSE 0]
    /\ SilentSlewMode = TRUE
    /\ MicrostepsPerRevolution = [a \in Axes |-> MicrostepsSample]
    /\ StepperClockFrequency = [a \in Axes |-> ClockSample]
    /\ HighSpeedRatio = [a \in Axes |-> RatioSample]
    /\ LowSpeedGotoMargin = [a \in Axes |-> GotoMarginOf(MicrostepsSample)]
    /\ pc = "idle"
    /\ frame = NoFrame
    /\ sent = <<>>
    /\ polled = "none"
    /\ failed = FALSE
    /\ ret = "none"
    /\ MountCode = MCVersion % 256
    /\ IsDCMotor = FALSE
    /\ PolarisPositionEncoders = [a \in Axes |-> ReferencePosition(MCVersion >= AdvancedFirmware)]
    /\ ZeroPositionEncoders = [a \in Axes |-> ReferencePosition(MCVersion >= AdvancedFirmware)]
    /\ xchg = NoExchange
    /\ codec = NoCodec
    /\ flags = NoFlags

NextAxes ==
    \/ \E a \in Axes : Poll(a)
    \/ \E a \in Axes : GetStatus(a)
    \/ \E a \in Axes : GetEncoder(a)
    \/ \E a \in Axes : InstantStop(a)
    \/ \E a \in Axes : SlowStop(a)
    \/ \E a \in Axes, d \in Destinations : SlewTo_Advanced(a, d, FALSE)
    \/ \E a \in Axes, r \in LoopRates : Slew(a, r, FALSE)
    \/ PFS_Poll
    \/ \E a \in Axes, o \in LoopOffsets : SlewTo(a, o, FALSE)
    \/ SlewTo_Poll

SpecAxes == InitAxes /\ [][NextAxes]_vars

\* the character that addresses an axis in a frame
AxisChar(Axis) == IF Axis = AXIS1 THEN Ord("1") ELSE Ord("2")

\* C33: every step of an operation called for an axis (GetStatus,
\* GetEncoder, Slew, SlewTo, SlewTo_Advanced, SlowStop, InstantStop and the
\* rounds of their polling loops) sends only frames addressed to that axis
\* and leaves the status, the encoder value, the slew-to target and the
\* slewing speed of the other axis as they were.
C33_AxesIndependent ==
    [][\E a \in Axes :
          /\ frame'.op # "none" => a = frame'.Axis
          /\ \A i \in DOMAIN sent' : sent'[i][3] = AxisChar(a)
          /\ \A b \in Axes \ {a} :
                /\ AxesStatus'[b] = AxesStatus[b]
                /\ CurrentEncoders'[b] = CurrentEncoders[b]
                /\ LastSlewToTarget'[b] = LastSlewToTarget[b]
                /\ SlewingSpeed'[b] = SlewingSpeed[b]]_vars

\* a SlewTo of the second axis has returned after its polling loop, the
\* first axis as its earlier use left it
C33_Witness ==
    /\ pc = "done" /\ frame.op = "SlewTo" /\ frame.Axis = AXIS2
    /\ FramesOf(sent, "K") # {} /\ FramesOf(sent, "J") # {}
    /\ \A i \in DOMAIN sent : sent[i][3] = Ord("2")
    /\ AxesStatus[AXIS1] = UsedStatus
    /\ CurrentEncoders[AXIS1] = AnsweredEncoder(AXIS1)
    /\ LastSlewToTarget[AXIS1] = AnsweredEncoder(AXIS1) + 70000
    /\ SlewingSpeed[AXIS1] = SIDEREALRATE
    /\ AxesStatus[AXIS2].SlewingTo

=============================================================================
